---- MODULE Spec2Model ----
(***************************************************************************)
(* Memento server: the sync orchestrator (syncService.ts), its bookkeeping *)
(* table (sync_metadata), the stored documents (insights) with their       *)
(* derived action items, the stored life logs, and the status query.       *)
(*                                                                         *)
(* Every `await` of an invocation is one step, so that two invocations     *)
(* interleave exactly where the event loop lets them.                      *)
(***************************************************************************)
EXTENDS Integers, Sequences, FiniteSets, TLC

(* ------------------------------ bounds -------------------------------- *)
MaxRuns == 2          \* sync invocations started in one behaviour
MaxChats == 2         \* chats returned by one fetch of /chats
MaxEntries == 2       \* life logs returned by one fetch of /lifelogs
MaxFailures == 2      \* storage or network calls that fail in one behaviour
MaxEdits == 1         \* user edits (completion toggles, content edits)
MaxBodyLines == 3     \* lines of a document after its first line
MaxPassItems == 1     \* chats or entries returned by one fetch when passes overlap
MaxDaysBack == 3      \* the daysBack a forced life-log sync is called with

Users == {1, 2}
Procs == {1, 2}
\* what a user types into a document
EditedContent == "e"
\* the hours at which the clock is sampled: 06:00 and 08:00 of day 0 and day 1
Times == {6, 8, 30, 32}

VARIABLES
  apiKey,         \* user_configs: does the user hold a limitlessApiKey
  insightsTbl,    \* insights rows
  actionItemsTbl, \* action_items rows, in rowid order
  lifelogsTbl,    \* lifelogs rows
  syncMetadata,   \* sync_metadata rows, in rowid order
  now,            \* the clock, in hours
  proc,           \* the sync invocations in flight
  runs,           \* invocations that may still start
  failures,       \* calls that may still fail
  edits,          \* user edits made so far
  userCompleted,  \* history: (insightId, content) pairs the user marked completed
  userEdited,     \* history: insight ids whose content the user edited
  hist,           \* history: per user and kind, the items of the last undisturbed successful sync
  sched,          \* the scheduled passes (runScheduledSync) in flight
  eng             \* the extraction engine: the document at hand and what was extracted

vars == <<apiKey, insightsTbl, actionItemsTbl, lifelogsTbl, syncMetadata, now,
          proc, runs, failures, edits, userCompleted, userEdited, hist, sched, eng>>

(* --------------------------- SQL values ------------------------------- *)
\* A column value as SQLite holds it: NULL, a text, or an integer.
Null == [k |-> "null", v |-> 0]
TextVal(t) == [k |-> "text", v |-> t]
IntVal(n) == [k |-> "int", v |-> n]

\* the value of an invalid Date / invalid DateTime
NaN == -1

\* datetime('now') and CURRENT_TIMESTAMP yield the text 'YYYY-MM-DD HH:MM:SS'
DatetimeNow == TextVal(now)

\* integer(..., { mode: 'timestamp' }) maps a Date to whole seconds on write
\* (the columns are declared TEXT, so SQLite keeps the number as its decimal
\* text, which `value * 1000` turns into the number again) ...
ToDriverTimestamp(ms) == IF ms = NaN THEN Null ELSE IntVal(ms \div 1000)
\* ... and a driver value to `new Date(value * 1000)` on read: a text that is
\* no number gives an invalid Date. The result is in milliseconds.
FromDriverTimestamp(val) == IF val.k = "int" THEN val.v * 1000 ELSE NaN

(* ------------------------- sync_metadata ------------------------------ *)
NoDetails ==
  [syncType |-> "none", fetched |-> 0, added |-> 0, updated |-> 0, error |-> "",
   lifelogsFetched |-> 0, lifelogsAdded |-> 0, lifelogsUpdated |-> 0]

DefaultMetadataRow(u) ==
  [userId |-> u, lastSyncAt |-> DatetimeNow, lastInsightsSyncAt |-> Null,
   lastLifelogsSyncAt |-> Null, lastSyncStatus |-> "idle",
   insightsFetched |-> 0, insightsUpdated |-> 0, insightsAdded |-> 0,
   lifelogsFetched |-> 0, lifelogsUpdated |-> 0, lifelogsAdded |-> 0,
   errorMessage |-> ""]

\* sync_metadata has no unique constraint on user_id, so the insert of
\* ensureSyncMetadata never conflicts: it adds a row each time.
EnsureSyncMetadata(rows, u) == Append(rows, DefaultMetadataRow(u))

\* markSyncStatus stamping both timestamps whatever the status
MarkRowAlways(r, status, d) ==
  [r EXCEPT !.lastSyncStatus = status, !.lastSyncAt = DatetimeNow,
            !.errorMessage = d.error,
            !.lastInsightsSyncAt = DatetimeNow, !.lastLifelogsSyncAt = DatetimeNow]

MarkRow(r, status, d) ==
  LET base == [r EXCEPT !.lastSyncStatus = status, !.lastSyncAt = DatetimeNow,
                        !.errorMessage = d.error]
      ins == IF d.syncType \in {"none", "insights", "both"}
             THEN [base EXCEPT !.insightsFetched = d.fetched,
                               !.insightsAdded = d.added,
                               !.insightsUpdated = d.updated,
                               !.lastInsightsSyncAt =
                                  IF status = "success" THEN DatetimeNow ELSE @]
             ELSE base
  IN IF d.syncType \in {"lifelogs", "both"}
     THEN [ins EXCEPT !.lifelogsFetched = d.lifelogsFetched,
                      !.lifelogsAdded = d.lifelogsAdded,
                      !.lifelogsUpdated = d.lifelogsUpdated,
                      !.lastLifelogsSyncAt =
                         IF status = "success" THEN DatetimeNow ELSE @]
     ELSE ins

\* the UPDATE of markSyncStatus: every row of the user
MarkSyncStatusUpdate(rows, u, status, d) ==
  [i \in 1..Len(rows) |->
     IF rows[i].userId = u THEN MarkRow(rows[i], status, d) ELSE rows[i]]

UserRows(u) == {i \in 1..Len(syncMetadata) : syncMetadata[i].userId = u}

(* --------------------------- invocations ------------------------------ *)
NoBaseline == [ok |-> FALSE, items |-> <<>>]
\* history that a specification does not follow
Untracked == [ok |-> FALSE, items |-> <<"untracked">>]

\* `daysBack = 30` of syncLifeLogsForUser
DefaultDaysBack == 30

\* no fetch sent yet
NoRequest == [dates |-> <<>>, start |-> NaN, end |-> NaN, limit |-> 0]

IdleProc ==
  [pc |-> "idle", kind |-> "none", user |-> 0, force |-> FALSE,
   inCatch |-> FALSE, err |-> "", failedAt |-> "", markStatus |-> "", markDetails |-> NoDetails,
   ret |-> "", start |-> NaN, items |-> <<>>, idx |-> 0,
   fetched |-> 0, added |-> 0, updated |-> 0, skipped |-> 0,
   existingId |-> 0, entryDate |-> 0, after |-> "",
   outcome |-> "", message |-> <<>>, lastWritten |-> "",
   baseline |-> NoBaseline, disturbed |-> FALSE, wrote |-> {},
   daysBack |-> DefaultDaysBack, found |-> FALSE, request |-> NoRequest]
\* baseline: the pass that had finished, undisturbed, when this one started;
\* disturbed: something else wrote to the user's rows while this one ran;
\* wrote: the ids of the rows this invocation wrote;
\* failedAt: the pc of the call whose rejection the catch handler caught;
\* found: the select of the last successful sync returned a timestamp;
\* request: the parameters of the fetch the invocation sent

Running(l) == l.pc \notin {"idle", "done"}

\* pcs at which the invocation waits for a storage call
StoragePcs == {"config", "mark_ensure", "mark_update", "d_lastsync", "d_select",
               "d_insert", "d_update", "r_delete", "r_insert",
               "l_lastsync", "l_select", "l_create", "l_update"}
\* pcs at which it waits for the external source
FetchPcs == {"d_fetch", "l_fetch"}

\* markSyncStatus(userId, status, details) is two awaits: the insert of
\* ensureSyncMetadata, then the update.
CallMark(l, status, d, ret) ==
  [l EXCEPT !.pc = "mark_ensure", !.markStatus = status, !.markDetails = d, !.ret = ret]

\* A call rejects with `msg`. Inside the try block the catch handler marks the
\* bookkeeping row (documents: no syncType; life logs: syncType 'lifelogs');
\* outside it, and inside the handler itself, the rejection leaves the function.
Throw(l, msg) ==
  IF l.inCatch \/ l.pc = "config"
  THEN [l EXCEPT !.pc = "done", !.outcome = "threw", !.message = <<msg>>]
  ELSE CallMark([l EXCEPT !.inCatch = TRUE, !.err = msg, !.failedAt = l.pc], "error",
                [NoDetails EXCEPT !.error = msg,
                                  !.syncType = IF l.kind = "life" THEN "lifelogs" ELSE "none"],
                "return_failure")

\* history: a write of invocation p (or of the user, p = 0) to the rows of
\* user u disturbs every other invocation in flight for u
Disturb(pr, p, u) ==
  [q \in Procs |->
     IF q # p /\ Running(pr[q]) /\ pr[q].user = u
     THEN [pr[q] EXCEPT !.disturbed = TRUE] ELSE pr[q]]

Unclean(u, kind) ==
  IF hist[u][kind] = Untracked THEN hist ELSE [hist EXCEPT ![u][kind] = NoBaseline]

(* ---------------------------- documents -------------------------------- *)
\* runSyncForUser: `if (!chat.createdAt) continue`, `if (!contentDate) continue`,
\* `if (!content) continue`
ValidChat(c) == c.createdAt # 0 /\ c.content # ""

\* contentDate = created.minus({ days: 1 }).toISODate()
ContentDate(c) == c.createdAt - 1

\* extractStructuredData(content, date).actionItems, on the documents the
\* model draws: "a" holds one follow-up, "b" two, the edited text another one
ExtractActionItems(content) ==
  CASE content = "a" -> <<"t1">>
    [] content = "b" -> <<"t1", "t2">>
    [] content = "e" -> <<"t3">>
    [] OTHER -> <<>>

RECURSIVE NextValidChat(_, _)
NextValidChat(items, i) ==
  IF i > Len(items) THEN i
  ELSE IF ValidChat(items[i]) THEN i ELSE NextValidChat(items, i + 1)

\* the loop head without `fetched += 1`
AdvanceDocUncounted(l, i) ==
  LET j == NextValidChat(l.items, i)
  IN IF j <= Len(l.items)
     THEN [l EXCEPT !.idx = j, !.pc = "d_select"]
     ELSE CallMark([l EXCEPT !.idx = j], "success",
                   [NoDetails EXCEPT !.syncType = "insights", !.fetched = l.fetched,
                                     !.added = l.added, !.updated = l.updated],
                   "return_success")

\* the head of the `for (const chat of chats)` loop, from chat i on: skip the
\* chats the filters drop, count the next one and select its stored row; after
\* the last chat, mark success
AdvanceDoc(l, i) ==
  LET j == NextValidChat(l.items, i)
  IN IF j <= Len(l.items)
     THEN [l EXCEPT !.idx = j, !.fetched = @ + 1, !.pc = "d_select"]
     ELSE CallMark([l EXCEPT !.idx = j], "success",
                   [NoDetails EXCEPT !.syncType = "insights", !.fetched = l.fetched,
                                     !.added = l.added, !.updated = l.updated],
                   "return_success")

\* the unique index idx_insights_user_date
InsightExists(u, date) == \E r \in insightsTbl : r.userId = u /\ r.date = date

NextInsightId == Cardinality(insightsTbl) + 1

StartDocSync(p, u, force) ==
  /\ proc[p].pc = "idle"
  /\ runs > 0
  /\ runs' = runs - 1
  /\ proc' = [proc EXCEPT ![p] = [IdleProc EXCEPT !.pc = "config", !.kind = "doc",
                                                  !.user = u, !.force = force,
                                                  !.baseline = hist[u]["doc"]]]
  /\ hist' = [hist EXCEPT ![u].docFailure = ""]
  /\ UNCHANGED <<sched, eng, apiKey, insightsTbl, actionItemsTbl, lifelogsTbl, syncMetadata, now,
                 failures, edits, userCompleted, userEdited>>

\* getUserConfig without the credential check
GetUserConfigNoCheck(p) ==
  LET l == proc[p] IN
  /\ l.pc = "config"
  /\ proc' = [proc EXCEPT ![p] =
       IF l.kind = "doc"
       THEN CallMark(l, "in_progress", [NoDetails EXCEPT !.syncType = "insights"],
                     IF l.force THEN "d_fetch" ELSE "d_lastsync")
       ELSE [l EXCEPT !.pc = IF l.force THEN "l_fetch" ELSE "l_lastsync"]]
  /\ UNCHANGED <<sched, eng, apiKey, insightsTbl, actionItemsTbl, lifelogsTbl, syncMetadata, now,
                 runs, failures, edits, userCompleted, userEdited, hist>>

\* getUserConfig, then `if (!config?.limitlessApiKey) return {skipped}`
GetUserConfig(p) ==
  LET l == proc[p] IN
  /\ l.pc = "config"
  /\ proc' = [proc EXCEPT ![p] =
       IF ~apiKey[l.user]
       THEN [l EXCEPT !.pc = "done", !.outcome = "skipped", !.message = <<"Missing API key">>]
       ELSE IF l.kind = "doc"
       THEN CallMark(l, "in_progress", [NoDetails EXCEPT !.syncType = "insights"],
                     IF l.force THEN "d_fetch" ELSE "d_lastsync")
       ELSE [l EXCEPT !.pc = IF l.force THEN "l_fetch" ELSE "l_lastsync"]]
  /\ UNCHANGED <<sched, eng, apiKey, insightsTbl, actionItemsTbl, lifelogsTbl, syncMetadata, now,
                 runs, failures, edits, userCompleted, userEdited, hist>>

MarkEnsure(p) ==
  LET l == proc[p] IN
  /\ l.pc = "mark_ensure"
  /\ syncMetadata' = EnsureSyncMetadata(syncMetadata, l.user)
  /\ proc' = [proc EXCEPT ![p].pc = "mark_update"]
  /\ UNCHANGED <<sched, eng, apiKey, insightsTbl, actionItemsTbl, lifelogsTbl, now,
                 runs, failures, edits, userCompleted, userEdited, hist>>

\* history: what a finished sync leaves in `hist`
CleanAfter(l) ==
  IF l.outcome = "success" /\ ~l.disturbed /\ hist[l.user][l.kind] # Untracked
  THEN [hist EXCEPT ![l.user][l.kind] = [ok |-> TRUE, items |-> l.items]]
  ELSE IF l.outcome = "failure" /\ l.kind = "doc"
  THEN [hist EXCEPT ![l.user].docFailure = l.err]
  ELSE hist

\* the update of markSyncStatus; when it was the last statement before a
\* return, the function returns in the same step. `message` holds the parts of
\* the returned message.
MarkUpdate(p) ==
  LET l == proc[p]
      m == [l EXCEPT !.lastWritten = l.markStatus]
      fin == IF l.ret = "return_success"
             THEN [m EXCEPT !.pc = "done", !.outcome = "success"]
             ELSE IF l.ret = "return_failure"
             THEN [m EXCEPT !.pc = "done", !.outcome = "failure",
                            !.message = IF l.kind = "life"
                                        THEN <<"Failed to sync life logs: ", l.err>>
                                        ELSE <<l.err>>]
             ELSE [m EXCEPT !.pc = l.ret]
  IN
  /\ l.pc = "mark_update"
  /\ syncMetadata' = MarkSyncStatusUpdate(syncMetadata, l.user, l.markStatus, l.markDetails)
  /\ proc' = [proc EXCEPT ![p] = fin]
  /\ hist' = CleanAfter(fin)
  /\ UNCHANGED <<sched, eng, apiKey, insightsTbl, actionItemsTbl, lifelogsTbl, now,
                 runs, failures, edits, userCompleted, userEdited>>

\* select lastInsightsSyncAt ... limit 1, then the start of the window:
\* DateTime.fromJSDate(lastInsightsSyncAt).minus({ hours: 1 }).toUTC().toISO() || undefined
InsightsWindowStart(u) ==
  IF UserRows(u) = {} THEN NaN
  ELSE LET r == syncMetadata[CHOOSE i \in UserRows(u) : \A j \in UserRows(u) : i <= j]
       IN IF r.lastInsightsSyncAt = Null THEN NaN
          ELSE LET ms == FromDriverTimestamp(r.lastInsightsSyncAt)
               IN IF ms = NaN THEN NaN ELSE ms - 3600000

\* `if (lastSync?.lastInsightsSyncAt)`: a row with a value in `column`; a Date
\* object is truthy, a valid one and an invalid one alike
LastSyncFound(u, column) ==
  /\ UserRows(u) # {}
  /\ syncMetadata[CHOOSE i \in UserRows(u) : \A j \in UserRows(u) : i <= j][column] # Null

DocLastSync(p) ==
  LET l == proc[p] IN
  /\ l.pc = "d_lastsync"
  /\ proc' = [proc EXCEPT ![p] = [l EXCEPT !.pc = "d_fetch",
                                           !.start = InsightsWindowStart(l.user),
                                           !.found = LastSyncFound(l.user, "lastInsightsSyncAt")]]
  /\ UNCHANGED <<sched, eng, apiKey, insightsTbl, actionItemsTbl, lifelogsTbl, syncMetadata, now,
                 runs, failures, edits, userCompleted, userEdited, hist>>

\* the chats the source returns: two texts for the same day, one chat without
\* createdAt and one without assistant text
Chat == {[createdAt |-> 2, content |-> "a"], [createdAt |-> 2, content |-> "b"],
         [createdAt |-> 0, content |-> "a"], [createdAt |-> 2, content |-> ""]}

RECURSIVE SeqsUpTo(_, _)
SeqsUpTo(S, n) ==
  IF n = 0 THEN {<<>>}
  ELSE LET shorter == SeqsUpTo(S, n - 1)
       IN shorter \cup {Append(s, x) : s \in shorter, x \in S}

\* fetchDailyInsights(apiKey, { start: startTime }): limit 200, newest first,
\* and the start parameter only when startTime is set (NaN: no parameter)
DocRequest(l) == [dates |-> <<>>, start |-> l.start, end |-> NaN, limit |-> 200]

\* fetchDailyInsights: whatever the external source holds now
DocFetch(p) ==
  LET l == proc[p] IN
  /\ l.pc = "d_fetch"
  /\ \E chats \in SeqsUpTo(Chat, MaxChats) :
       proc' = [proc EXCEPT ![p] =
                  AdvanceDoc([l EXCEPT !.items = chats, !.request = DocRequest(l)], 1)]
  /\ UNCHANGED <<sched, eng, apiKey, insightsTbl, actionItemsTbl, lifelogsTbl, syncMetadata, now,
                 runs, failures, edits, userCompleted, userEdited, hist>>

\* select from insights where userId and date, limit 1, and the branch on it
DocSelect(p) ==
  LET l == proc[p]
      chat == l.items[l.idx]
      found == {r \in insightsTbl : r.userId = l.user /\ r.date = ContentDate(chat)}
  IN
  /\ l.pc = "d_select"
  /\ proc' = [proc EXCEPT ![p] =
       IF found = {} THEN [l EXCEPT !.pc = "d_insert"]
       ELSE LET record == CHOOSE r \in found : TRUE
            IN IF record.content # chat.content
               THEN [l EXCEPT !.pc = "d_update", !.existingId = record.id]
               ELSE AdvanceDoc(l, l.idx + 1)]
  /\ UNCHANGED <<sched, eng, apiKey, insightsTbl, actionItemsTbl, lifelogsTbl, syncMetadata, now,
                 runs, failures, edits, userCompleted, userEdited, hist>>

\* the insert as it would be without idx_insights_user_date
InsertInsightNoIndex(u, date, content) ==
  insightsTbl \cup {[id |-> NextInsightId, userId |-> u, date |-> date,
                     content |-> content]}

\* db.insert(insights): rejected by the unique index when the row exists
InsertInsight(u, date, content) ==
  IF InsightExists(u, date) THEN insightsTbl
  ELSE insightsTbl \cup {[id |-> NextInsightId, userId |-> u, date |-> date,
                          content |-> content]}

DocInsert(p) ==
  LET l == proc[p]
      chat == l.items[l.idx]
  IN
  /\ l.pc = "d_insert"
  /\ insightsTbl' = InsertInsight(l.user, ContentDate(chat), chat.content)
  /\ IF insightsTbl' = insightsTbl
     THEN /\ proc' = [proc EXCEPT ![p] = Throw(l, "UNIQUE constraint failed")]
          /\ hist' = hist
     ELSE /\ proc' = [Disturb(proc, p, l.user) EXCEPT ![p] =
                        [l EXCEPT !.pc = "r_delete", !.existingId = NextInsightId,
                                  !.after = "added", !.wrote = @ \cup {NextInsightId}]]
          /\ hist' = Unclean(l.user, "doc")
  /\ UNCHANGED <<sched, eng, apiKey, actionItemsTbl, lifelogsTbl, syncMetadata, now,
                 runs, failures, edits, userCompleted, userEdited>>

\* db.update(insights).set({ content }).where(id = record.id)
DocUpdate(p) ==
  LET l == proc[p]
      chat == l.items[l.idx]
  IN
  /\ l.pc = "d_update"
  /\ insightsTbl' = {IF r.id = l.existingId THEN [r EXCEPT !.content = chat.content] ELSE r
                       : r \in insightsTbl}
  /\ proc' = [Disturb(proc, p, l.user) EXCEPT ![p] =
                [l EXCEPT !.pc = "r_delete", !.after = "updated",
                          !.wrote = @ \cup {l.existingId}]]
  /\ hist' = Unclean(l.user, "doc")
  /\ UNCHANGED <<sched, eng, apiKey, actionItemsTbl, lifelogsTbl, syncMetadata, now,
                 runs, failures, edits, userCompleted, userEdited>>

\* refreshStructuredData, first half: delete the derived rows of the insight.
\* Of the derived tables the model keeps action_items, the one with a field
\* the user changes; the others are deleted and refilled the same way.
DeleteDerived(rows, insightId) == SelectSeq(rows, LAMBDA r : r.insightId # insightId)

RefreshDelete(p) ==
  LET l == proc[p] IN
  /\ l.pc = "r_delete"
  /\ actionItemsTbl' = DeleteDerived(actionItemsTbl, l.existingId)
  /\ proc' = [Disturb(proc, p, l.user) EXCEPT ![p] = [l EXCEPT !.pc = "r_insert"]]
  /\ hist' = Unclean(l.user, "doc")
  /\ UNCHANGED <<sched, eng, apiKey, insightsTbl, lifelogsTbl, syncMetadata, now,
                 runs, failures, edits, userCompleted, userEdited>>

\* refreshStructuredData, second half: insert the freshly extracted rows
InsertDerived(rows, u, insightId, content) ==
  LET items == ExtractActionItems(content)
  IN rows \o [i \in 1..Len(items) |->
                [userId |-> u, insightId |-> insightId, content |-> items[i],
                 completed |-> FALSE]]

RefreshInsert(p) ==
  LET l == proc[p]
      chat == l.items[l.idx]
      counted == IF l.after = "added" THEN [l EXCEPT !.added = @ + 1]
                 ELSE [l EXCEPT !.updated = @ + 1]
  IN
  /\ l.pc = "r_insert"
  /\ actionItemsTbl' = InsertDerived(actionItemsTbl, l.user, l.existingId, chat.content)
  /\ proc' = [Disturb(proc, p, l.user) EXCEPT ![p] = AdvanceDoc(counted, l.idx + 1)]
  /\ hist' = Unclean(l.user, "doc")
  /\ UNCHANGED <<sched, eng, apiKey, insightsTbl, lifelogsTbl, syncMetadata, now,
                 runs, failures, edits, userCompleted, userEdited>>

\* a storage call rejects (SQLITE_BUSY, SQLITE_FULL, SQLITE_IOERR, ...)
StorageFailure(p) ==
  /\ proc[p].pc \in StoragePcs
  /\ failures > 0
  /\ failures' = failures - 1
  /\ proc' = [proc EXCEPT ![p] = Throw(proc[p], "storage error")]
  /\ UNCHANGED <<sched, eng, apiKey, insightsTbl, actionItemsTbl, lifelogsTbl, syncMetadata, now,
                 runs, edits, userCompleted, userEdited, hist>>

\* the request to the external source rejects (network, 401, 429, timeout)
FetchFailure(p) ==
  /\ proc[p].pc \in FetchPcs
  /\ failures > 0
  /\ failures' = failures - 1
  /\ proc' = [proc EXCEPT ![p] = Throw(proc[p], "network error")]
  /\ UNCHANGED <<sched, eng, apiKey, insightsTbl, actionItemsTbl, lifelogsTbl, syncMetadata, now,
                 runs, edits, userCompleted, userEdited, hist>>

\* the caller has its result; the slot is free for the next invocation
Finish(p) ==
  /\ proc[p].pc = "done"
  /\ proc' = [proc EXCEPT ![p] = IdleProc]
  /\ UNCHANGED <<sched, eng, apiKey, insightsTbl, actionItemsTbl, lifelogsTbl, syncMetadata, now,
                 runs, failures, edits, userCompleted, userEdited, hist>>

(* ---------------------------- life logs -------------------------------- *)
\* the entries the source returns: entry x with either transcript and a
\* whole-second start time, entry y with a start time that has a fraction of
\* a second, and an entry without id
LifeLogEntry ==
  {[id |-> "x", markdown |-> "m1", startTime |-> 1000],
   [id |-> "x", markdown |-> "m2", startTime |-> 1000],
   [id |-> "y", markdown |-> "m1", startTime |-> 1500],
   [id |-> "", markdown |-> "m1", startTime |-> 1000]}

MsPerDay == 86400000
HoursPerDay == 24
MsPerHour == 3600000

NowMs == now * MsPerHour

\* determineSegmentType(title, summary): none of the keywords occurs in the
\* empty title and summary of the entries the model draws
DetermineSegmentType(title, summary) == "general"

\* normalizeLifeLog(log, fallbackDate): the date is the local date of the start
\* time when there is one, else the fallback (today); title and summary
\* default to ''. The entries of the model carry no title, summary,
\* segmentType, endTime or date of their own.
NormalizeLifeLog(log, fallbackDate) ==
  [limitlessId |-> log.id,
   date |-> IF log.startTime # NaN THEN log.startTime \div MsPerDay
            ELSE fallbackDate,
   title |-> "", summary |-> "", markdownContent |-> log.markdown,
   segmentType |-> DetermineSegmentType("", ""),
   startTime |-> log.startTime, endTime |-> NaN]

\* `record.startTime?.valueOf() ?? 0` on a column read through the driver
RecordTimeValue(val) == IF val = Null THEN 0 ELSE FromDriverTimestamp(val)
\* `normalized.startTime?.valueOf() ?? 0`
NormalizedTimeValue(ms) == IF ms = NaN THEN 0 ELSE ms

HasChanges(force, record, normalized) ==
  \/ force
  \/ record.title # normalized.title
  \/ record.summary # normalized.summary
  \/ record.markdownContent # normalized.markdownContent
  \/ record.segmentType # normalized.segmentType
  \/ RecordTimeValue(record.startTime) # NormalizedTimeValue(normalized.startTime)
  \/ RecordTimeValue(record.endTime) # NormalizedTimeValue(normalized.endTime)
  \/ record.date # normalized.date

RECURSIVE NextValidEntry(_, _)
NextValidEntry(items, i) ==
  IF i > Len(items) THEN i
  ELSE IF items[i].id # "" THEN i ELSE NextValidEntry(items, i + 1)

\* the head of the `for (const entry of lifelogEntries)` loop, from entry i on:
\* entryDate = entry.date || DateTime.now().toISODate(), entries without an id
\* are dropped
AdvanceLife(l, i) ==
  LET j == NextValidEntry(l.items, i)
  IN IF j <= Len(l.items)
     THEN [l EXCEPT !.idx = j, !.pc = "l_select", !.entryDate = now \div HoursPerDay]
     ELSE CallMark([l EXCEPT !.idx = j], "success",
                   [NoDetails EXCEPT !.syncType = "lifelogs",
                                     !.lifelogsFetched = Len(l.items),
                                     !.lifelogsAdded = l.added,
                                     !.lifelogsUpdated = l.updated],
                   "return_success")

NextLifeLogId == Cardinality(lifelogsTbl) + 1

\* syncLifeLogsForUser(userId, { daysBack, force })
StartLifeSyncDays(p, u, force, daysBack) ==
  /\ proc[p].pc = "idle"
  /\ runs > 0
  /\ runs' = runs - 1
  /\ proc' = [proc EXCEPT ![p] = [IdleProc EXCEPT !.pc = "config", !.kind = "life",
                                                  !.user = u, !.force = force,
                                                  !.daysBack = daysBack,
                                                  !.baseline = hist[u]["life"]]]
  /\ UNCHANGED <<sched, eng, apiKey, insightsTbl, actionItemsTbl, lifelogsTbl, syncMetadata, now,
                 failures, edits, userCompleted, userEdited, hist>>

\* syncLifeLogsForUser(userId, { force }): daysBack takes its default
StartLifeSync(p, u, force) == StartLifeSyncDays(p, u, force, DefaultDaysBack)

\* select lastLifelogsSyncAt ... limit 1, then
\* DateTime.fromJSDate(lastLifelogsSyncAt).minus({ hours: 2 }).toUTC().toISO()
LifelogsWindowStart(u) ==
  IF UserRows(u) = {} THEN NaN
  ELSE LET r == syncMetadata[CHOOSE i \in UserRows(u) : \A j \in UserRows(u) : i <= j]
       IN IF r.lastLifelogsSyncAt = Null THEN NaN
          ELSE LET ms == FromDriverTimestamp(r.lastLifelogsSyncAt)
               IN IF ms = NaN THEN NaN ELSE ms - 7200000

LifeLastSync(p) ==
  LET l == proc[p] IN
  /\ l.pc = "l_lastsync"
  /\ proc' = [proc EXCEPT ![p] = [l EXCEPT !.pc = "l_fetch",
                                           !.start = LifelogsWindowStart(l.user),
                                           !.found = LastSyncFound(l.user, "lastLifelogsSyncAt")]]
  /\ UNCHANGED <<sched, eng, apiKey, insightsTbl, actionItemsTbl, lifelogsTbl, syncMetadata, now,
                 runs, failures, edits, userCompleted, userEdited, hist>>

\* config.timezone ?? 'UTC', as the offset of the zone in hours: user 1 has
\* 'UTC', user 2 'America/Los_Angeles' (standard time)
ZoneOffset(u) == IF u = 1 THEN 0 ELSE -8

\* DateTime.now().setZone(timezone).startOf('day'), as a day number
Today(u) == (now + ZoneOffset(u)) \div HoursPerDay

\* the fetches of syncLifeLogsForUser without targetDate: `dates` holds the
\* date of each fetchLifeLogs(apiKey, { date }) in call order; a fetch by
\* start and end has no dates
LifeRequest(l) ==
  LET today == Today(l.user) IN
  IF ~l.force
  THEN IF l.found
       THEN IF l.start # NaN
            THEN [dates |-> <<>>, start |-> l.start, end |-> NowMs, limit |-> 1000]
            ELSE [dates |-> <<today - 1, today>>, start |-> NaN, end |-> NaN, limit |-> 100]
       ELSE [dates |-> [i \in 1..3 |-> today - (i - 1)],
             start |-> NaN, end |-> NaN, limit |-> 100]
  ELSE [dates |-> <<today + 1>> \o [i \in 1..l.daysBack |-> today - (i - 1)],
        start |-> NaN, end |-> NaN, limit |-> 100]

\* fetchLifeLogs (one call or Promise.all of several): whatever the source holds
LifeFetch(p) ==
  LET l == proc[p] IN
  /\ l.pc = "l_fetch"
  /\ \E entries \in SeqsUpTo(LifeLogEntry, MaxEntries) :
       proc' = [proc EXCEPT ![p] =
                  AdvanceLife([l EXCEPT !.items = entries, !.request = LifeRequest(l)], 1)]
  /\ UNCHANGED <<sched, eng, apiKey, insightsTbl, actionItemsTbl, lifelogsTbl, syncMetadata, now,
                 runs, failures, edits, userCompleted, userEdited, hist>>

\* select from lifelogs where userId and limitlessId, limit 1, and the branch
LifeSelect(p) ==
  LET l == proc[p]
      normalized == NormalizeLifeLog(l.items[l.idx], l.entryDate)
      found == {r \in lifelogsTbl : r.userId = l.user /\ r.limitlessId = normalized.limitlessId}
  IN
  /\ l.pc = "l_select"
  /\ proc' = [proc EXCEPT ![p] =
       IF found = {} THEN [l EXCEPT !.pc = "l_create"]
       ELSE LET record == CHOOSE r \in found : TRUE
            IN IF HasChanges(l.force, record, normalized)
               THEN [l EXCEPT !.pc = "l_update", !.existingId = record.id]
               ELSE AdvanceLife([l EXCEPT !.skipped = @ + 1], l.idx + 1)]
  /\ UNCHANGED <<sched, eng, apiKey, insightsTbl, actionItemsTbl, lifelogsTbl, syncMetadata, now,
                 runs, failures, edits, userCompleted, userEdited, hist>>

\* createLifeLog: limitless_id is UNIQUE in the whole table
CreateLifeLog(u, n) ==
  IF \E r \in lifelogsTbl : r.limitlessId = n.limitlessId THEN lifelogsTbl
  ELSE lifelogsTbl \cup
         {[id |-> NextLifeLogId, userId |-> u, limitlessId |-> n.limitlessId,
           date |-> n.date, title |-> n.title, summary |-> n.summary,
           markdownContent |-> n.markdownContent, segmentType |-> n.segmentType,
           startTime |-> ToDriverTimestamp(n.startTime),
           endTime |-> ToDriverTimestamp(n.endTime)]}

LifeCreate(p) ==
  LET l == proc[p]
      normalized == NormalizeLifeLog(l.items[l.idx], l.entryDate)
  IN
  /\ l.pc = "l_create"
  /\ lifelogsTbl' = CreateLifeLog(l.user, normalized)
  /\ IF lifelogsTbl' = lifelogsTbl
     THEN /\ proc' = [proc EXCEPT ![p] = Throw(l, "UNIQUE constraint failed")]
          /\ hist' = hist
     ELSE /\ proc' = [Disturb(proc, p, l.user) EXCEPT ![p] =
                        AdvanceLife([l EXCEPT !.added = @ + 1,
                                              !.wrote = @ \cup {NextLifeLogId}], l.idx + 1)]
          /\ hist' = Unclean(l.user, "life")
  /\ UNCHANGED <<sched, eng, apiKey, insightsTbl, actionItemsTbl, syncMetadata, now,
                 runs, failures, edits, userCompleted, userEdited>>

\* updateLifeLog(userId, id, normalized): every field of the normalized entry
UpdateLifeLog(u, id, n) ==
  {IF r.id = id /\ r.userId = u
   THEN [r EXCEPT !.date = n.date, !.title = n.title, !.summary = n.summary,
                  !.markdownContent = n.markdownContent, !.segmentType = n.segmentType,
                  !.startTime = ToDriverTimestamp(n.startTime),
                  !.endTime = ToDriverTimestamp(n.endTime)]
   ELSE r : r \in lifelogsTbl}

LifeUpdate(p) ==
  LET l == proc[p]
      normalized == NormalizeLifeLog(l.items[l.idx], l.entryDate)
  IN
  /\ l.pc = "l_update"
  /\ lifelogsTbl' = UpdateLifeLog(l.user, l.existingId, normalized)
  /\ proc' = [Disturb(proc, p, l.user) EXCEPT ![p] =
                AdvanceLife([l EXCEPT !.updated = @ + 1,
                                      !.wrote = @ \cup {l.existingId}], l.idx + 1)]
  /\ hist' = Unclean(l.user, "life")
  /\ UNCHANGED <<sched, eng, apiKey, insightsTbl, actionItemsTbl, syncMetadata, now,
                 runs, failures, edits, userCompleted, userEdited>>

(* ------------------------------ the user ------------------------------- *)
\* updateActionItem(userId, id, { completed: true }) on the i-th stored row
UserCompleteActionItem(u, i) ==
  /\ edits < MaxEdits
  /\ i \in 1..Len(actionItemsTbl)
  /\ actionItemsTbl[i].userId = u
  /\ ~actionItemsTbl[i].completed
  /\ edits' = edits + 1
  /\ actionItemsTbl' = [actionItemsTbl EXCEPT ![i].completed = TRUE]
  /\ userCompleted' = userCompleted \cup
       {[insightId |-> actionItemsTbl[i].insightId, content |-> actionItemsTbl[i].content]}
  /\ UNCHANGED <<sched, eng, apiKey, insightsTbl, lifelogsTbl, syncMetadata, now, proc,
                 runs, failures, userEdited, hist>>

\* updateInsight(userId, id, { content }): the update, then
\* refreshInsightStructure (delete the derived rows, insert the extracted ones)
UserEditInsight(u, id) ==
  /\ edits < MaxEdits
  /\ \E r \in insightsTbl : r.id = id /\ r.userId = u /\ r.content # EditedContent
  /\ edits' = edits + 1
  /\ insightsTbl' = {IF r.id = id /\ r.userId = u THEN [r EXCEPT !.content = EditedContent]
                     ELSE r : r \in insightsTbl}
  /\ actionItemsTbl' = InsertDerived(DeleteDerived(actionItemsTbl, id), u, id, EditedContent)
  /\ userEdited' = userEdited \cup {id}
  /\ userCompleted' = {c \in userCompleted : c.insightId # id}
  /\ proc' = Disturb(proc, 0, u)
  /\ hist' = Unclean(u, "doc")
  /\ UNCHANGED <<sched, eng, apiKey, lifelogsTbl, syncMetadata, now, runs, failures>>

(* ------------------------------ the clock ------------------------------ *)
\* The clock is sampled hours apart and an invocation takes seconds: it moves
\* between invocations.
AdvanceClock ==
  /\ \A p \in Procs : ~Running(proc[p])
  /\ \E t \in Times : t > now /\ now' = t
  /\ UNCHANGED <<sched, eng, apiKey, insightsTbl, actionItemsTbl, lifelogsTbl, syncMetadata, proc,
                 runs, failures, edits, userCompleted, userEdited, hist>>

(* --------------------------- the status query -------------------------- *)
WindowHour == 7
\* now.startOf('day').set({ hour: 7 })
SyncWindowStart == ((now \div HoursPerDay) * HoursPerDay + WindowHour) * MsPerHour

\* `a < b` on DateTime values: false when either is invalid
DateTimeLess(a, b) == a # NaN /\ b # NaN /\ a < b

\* orderBy(desc(lastSyncAt)).limit(1): the rows of the user with the greatest
\* last_sync_at; SQLite may return any of them
LatestRows(u) ==
  {i \in UserRows(u) : \A j \in UserRows(u) : syncMetadata[j].lastSyncAt.v <= syncMetadata[i].lastSyncAt.v}

NoLastSync == [userId |-> 0]

\* getSyncStatusForUser, from the row the select returned (NoLastSync: none)
SyncStatusFrom(lastSync) ==
  IF lastSync = NoLastSync
  THEN [should_sync |-> NowMs >= SyncWindowStart,
        reason |-> IF NowMs >= SyncWindowStart THEN "First sync pending for today"
                   ELSE "Waiting until 7:00 AM",
        in_progress |-> FALSE, has_last_sync |-> FALSE,
        status |-> "", error_message |-> "", insights_added |-> 0]
  ELSE LET lastSyncTime == FromDriverTimestamp(lastSync.lastSyncAt)
           st == lastSync.lastSyncStatus
           decided ==
             IF st = "in_progress" THEN <<FALSE, "Sync already in progress">>
             ELSE IF NowMs < SyncWindowStart THEN <<FALSE, "Waiting until 7:00 AM">>
             ELSE IF DateTimeLess(lastSyncTime, SyncWindowStart) \/ st # "success"
             THEN <<TRUE, IF st = "success" THEN "No sync performed yet today"
                          ELSE "Last sync reported an error">>
             ELSE <<FALSE, "Already synced today">>
       IN [should_sync |-> decided[1], reason |-> decided[2],
           in_progress |-> st = "in_progress", has_last_sync |-> TRUE,
           status |-> st, error_message |-> lastSync.errorMessage,
           insights_added |-> lastSync.insightsAdded]

\* the answers getSyncStatusForUser(u) can give in the current state
SyncStatusAnswers(u) ==
  IF UserRows(u) = {} THEN {SyncStatusFrom(NoLastSync)}
  ELSE {SyncStatusFrom(syncMetadata[i]) : i \in LatestRows(u)}

(* ---------------------------- the scheduler ---------------------------- *)
\* A pass of runScheduledSync: not started, awaiting getUsersWithCredentials,
\* about to call a sync ("call"), awaiting it ("wait"), or ended. Pass i runs
\* its sync invocations in slot i of `proc`.
\* listed: the users the pass was given; started: the syncs it has called;
\* caught: the pass ended in its catch handler.
IdleSched ==
  [pc |-> "idle", queue |-> <<>>, user |-> 0, kind |-> "none",
   listed |-> {}, started |-> {}, caught |-> FALSE]

PassRunning(s) == s.pc \notin {"idle", "ended"}

RECURSIVE SortedSeq(_)
SortedSeq(S) ==
  IF S = {} THEN <<>>
  ELSE LET m == CHOOSE x \in S : \A y \in S : x <= y
       IN <<m>> \o SortedSeq(S \ {m})

\* cron.schedule(..., () => { void runScheduledSync(); }): the tick calls
\* runScheduledSync and does not wait for it
Tick(i) ==
  /\ sched[i].pc \in {"idle", "ended"}
  /\ runs > 0
  /\ runs' = runs - 1
  /\ sched' = [sched EXCEPT ![i] = [IdleSched EXCEPT !.pc = "users"]]
  /\ UNCHANGED <<apiKey, insightsTbl, actionItemsTbl, lifelogsTbl, syncMetadata, now,
                 proc, failures, edits, userCompleted, userEdited, hist, eng>>

\* the head of `for (const user of users)`: the next user's document sync, or
\* the end of the pass
NextUser(s, queue) ==
  IF queue = <<>> THEN [s EXCEPT !.pc = "ended", !.queue = <<>>]
  ELSE [s EXCEPT !.pc = "call", !.user = Head(queue), !.queue = Tail(queue),
                 !.kind = "doc"]

\* const users = await getUsersWithCredentials()
GetUsersWithCredentials(i) ==
  LET withKey == {u \in Users : apiKey[u]} IN
  /\ sched[i].pc = "users"
  /\ sched' = [sched EXCEPT ![i] =
                 NextUser([sched[i] EXCEPT !.listed = withKey], SortedSeq(withKey))]
  /\ UNCHANGED <<apiKey, insightsTbl, actionItemsTbl, lifelogsTbl, syncMetadata, now,
                 proc, runs, failures, edits, userCompleted, userEdited, hist, eng>>

\* getUsersWithCredentials rejects: caught by the try block of the pass
SchedUsersFailure(i) ==
  /\ sched[i].pc = "users"
  /\ failures > 0
  /\ failures' = failures - 1
  /\ sched' = [sched EXCEPT ![i].pc = "ended", ![i].caught = TRUE]
  /\ UNCHANGED <<apiKey, insightsTbl, actionItemsTbl, lifelogsTbl, syncMetadata, now,
                 proc, runs, edits, userCompleted, userEdited, hist, eng>>

\* runSyncForUser(user.id) / syncLifeLogsForUser(user.id, { daysBack: 2 })
SchedCall(i) ==
  LET s == sched[i] IN
  /\ s.pc = "call"
  /\ proc[i].pc = "idle"
  /\ proc' = [proc EXCEPT ![i] = [IdleProc EXCEPT !.pc = "config", !.kind = s.kind,
                                                  !.user = s.user, !.force = FALSE,
                                                  !.daysBack = IF s.kind = "life" THEN 2
                                                               ELSE DefaultDaysBack,
                                                  !.baseline = hist[s.user][s.kind]]]
  /\ hist' = IF s.kind = "doc" THEN [hist EXCEPT ![s.user].docFailure = ""] ELSE hist
  /\ sched' = [sched EXCEPT ![i].pc = "wait",
                            ![i].started = @ \cup {<<s.user, s.kind>>}]
  /\ UNCHANGED <<apiKey, insightsTbl, actionItemsTbl, lifelogsTbl, syncMetadata, now,
                 runs, failures, edits, userCompleted, userEdited, eng>>

\* the awaited sync returns: on to the life-log sync of the user or to the
\* next user; or it rejects: the try block encloses the whole loop, so the
\* catch handler logs the error and the pass ends
SchedReturn(i) ==
  LET s == sched[i] IN
  /\ s.pc = "wait"
  /\ proc[i].pc = "done"
  /\ proc' = [proc EXCEPT ![i] = IdleProc]
  /\ sched' = [sched EXCEPT ![i] =
       IF proc[i].outcome = "threw" THEN [s EXCEPT !.pc = "ended", !.caught = TRUE]
       ELSE IF s.kind = "doc" THEN [s EXCEPT !.pc = "call", !.kind = "life"]
       ELSE NextUser(s, s.queue)]
  /\ UNCHANGED <<apiKey, insightsTbl, actionItemsTbl, lifelogsTbl, syncMetadata, now,
                 runs, failures, edits, userCompleted, userEdited, hist, eng>>

(* ---------------------------- the engine ------------------------------- *)
\* Documents are strings. A module holds ASCII only, so three characters of
\* the documents are written with a stand-in: the em dash, the en dash and
\* the decorative glyph of a header.
EmDash == "~"
EnDash == "^"
Glyph == "@"

\* ---- strings: characters, literals, whitespace ----
Ch(s, i) == IF i >= 1 /\ i <= Len(s) THEN SubSeq(s, i, i) ELSE ""

\* the literal `lit` stands at position i of s
At(s, i, lit) ==
  i >= 1 /\ i + Len(lit) - 1 <= Len(s) /\ SubSeq(s, i, i + Len(lit) - 1) = lit

From(s, i) == SubSeq(s, i, Len(s))

\* \s
WhiteSpace == {" ", "\n", "\t"}

Least(S) == CHOOSE x \in S : \A y \in S : x <= y
Greatest(S) == CHOOSE x \in S : \A y \in S : x >= y

\* \s* from position i, greedy: the first position at or after i that holds no
\* whitespace (Len(s) + 1 at the end of input)
SkipSpace(s, i) ==
  Least({j \in i..(Len(s) + 1) : Ch(s, j) \notin WhiteSpace})

\* the position of the line feed that ends the line of position i, or
\* Len(s) + 1 on the last line
LineEnd(s, i) ==
  Least({j \in i..(Len(s) + 1) : j = Len(s) + 1 \/ Ch(s, j) = "\n"})

\* ^ under the m flag
LineStart(s, i) == i = 1 \/ Ch(s, i - 1) = "\n"

\* the `i` flag: letters compare by their lower case
UpperCase == "ABCDEFGHIJKLMNOPQRSTUVWXYZ"
LowerCase == "abcdefghijklmnopqrstuvwxyz"

LowerCh(c) ==
  LET k == {i \in 1..26 : Ch(UpperCase, i) = c}
  IN IF k = {} THEN c ELSE Ch(LowerCase, CHOOSE i \in k : TRUE)

RECURSIVE ToLower(_)
ToLower(s) == IF s = "" THEN "" ELSE LowerCh(Ch(s, 1)) \o ToLower(From(s, 2))

\* the literal, compared without case, stands at position i of s
AtFold(s, i, lit) ==
  /\ i >= 1 /\ i + Len(lit) - 1 <= Len(s)
  /\ LowerCh(Ch(s, i)) = LowerCh(Ch(lit, 1))
  /\ ToLower(SubSeq(s, i, i + Len(lit) - 1)) = ToLower(lit)

IsLetter(c) == c # "" /\ \E i \in 1..26 : Ch(UpperCase, i) = c \/ Ch(LowerCase, i) = c

\* value.trim()
Trim(s) ==
  LET solid == {i \in 1..Len(s) : Ch(s, i) \notin WhiteSpace}
  IN IF solid = {} THEN "" ELSE SubSeq(s, Least(solid), Greatest(solid))

\* value.replace(/\s+/g, ' ').trim()
RECURSIVE CollapseRuns(_)
CollapseRuns(s) ==
  IF s = "" THEN ""
  ELSE IF Ch(s, 1) \in WhiteSpace
       THEN " " \o CollapseRuns(From(s, SkipSpace(s, 1)))
       ELSE Ch(s, 1) \o CollapseRuns(From(s, 2))

collapseWhitespace(value) == Trim(CollapseRuns(value))

\* value.replace(/\*\*(.*?)\*\*/g, '$1'): the first `**` that has a closing
\* `**` later on its line loses both markers; `.` does not cross a line feed
RECURSIVE stripBold(_)
stripBold(value) ==
  LET opens == {i \in 1..Len(value) :
                  /\ At(value, i, "**")
                  /\ \E k \in (i + 2)..LineEnd(value, i + 2) : At(value, k, "**")}
  IN IF opens = {} THEN value
     ELSE LET i == Least(opens)
              k == Least({k \in (i + 2)..LineEnd(value, i + 2) : At(value, k, "**")})
          IN SubSeq(value, 1, i - 1) \o SubSeq(value, i + 2, k - 1)
               \o stripBold(From(value, k + 2))

\* ---- extractSectionItems ----
\* `marker\s+[^\n]*name` matched at position p (marker is ## or ###): the
\* positions right after an occurrence of the name, compared without case, on
\* the line that follows the whitespace
MarkEnds(c, p, marker, name) ==
  IF ~(At(c, p, marker) /\ Ch(c, p + Len(marker)) \in WhiteSpace) THEN {}
  ELSE LET q == SkipSpace(c, p + Len(marker))
       IN {h + Len(name) : h \in {h \in q..LineEnd(c, q) : AtFold(c, h, name)}}

\* `.*?###\s+[^\n]*sub` from position h: the position right after the
\* subsection name (its last occurrence on the line) of the first `###` line
\* at or after h that carries the name; 0 when there is none
SubsectionStart(c, h, sub) ==
  LET ts == {t \in h..Len(c) : MarkEnds(c, t, "###", sub) # {}}
  IN IF ts = {} THEN 0 ELSE Greatest(MarkEnds(c, Least(ts), "###", sub))

\* (.*?)(?=###|##|#|$): up to the next # or the end of the input
UpToHash(c, g) ==
  SubSeq(c, g, Least({j \in g..(Len(c) + 1) : j = Len(c) + 1 \/ Ch(c, j) = "#"}) - 1)

\* match[1] of the header/subsection pattern ("" without match)
SubsectionSpan(c, header, sub) ==
  LET found(p) == {g \in MarkEnds(c, p, "##", header) : SubsectionStart(c, g, sub) # 0}
      ps == {p \in 1..Len(c) : found(p) # {}}
  IN IF ps = {} THEN ""
     ELSE UpToHash(c, SubsectionStart(c, Greatest(found(Least(ps))), sub))

\* match[1] of the header-only pattern ("" without match)
HeaderSpan(c, header) ==
  LET ps == {p \in 1..Len(c) : MarkEnds(c, p, "##", header) # {}}
  IN IF ps = {} THEN ""
     ELSE UpToHash(c, Greatest(MarkEnds(c, Least(ps), "##", header)))

\* the position after the last character of the line of g that is no
\* whitespace (g holds none)
SolidEnd(sc, g) ==
  Greatest({j \in g..(LineEnd(sc, g) - 1) : Ch(sc, j) \notin WhiteSpace}) + 1

\* bulletPattern /^\s*[\*\-]\s+(.+?)(?=^\s*[\*\-]\s+|\s*$)/gms, exec after
\* exec from lastIndex `from`: the captured texts. The capture starts at the
\* first character after the marker's whitespace (which may cross lines) and
\* ends where the rest of its line is whitespace.
RECURSIVE BulletItems(_, _)
BulletItems(sc, from) ==
  LET marker(p) == SkipSpace(sc, p)
      starts == {p \in from..Len(sc) :
                   /\ LineStart(sc, p)
                   /\ Ch(sc, marker(p)) \in {"*", "-"}
                   /\ Ch(sc, marker(p) + 1) \in WhiteSpace
                   /\ SkipSpace(sc, marker(p) + 1) <= Len(sc)}
  IN IF starts = {} THEN <<>>
     ELSE LET g == SkipSpace(sc, marker(Least(starts)) + 1)
          IN <<SubSeq(sc, g, SolidEnd(sc, g) - 1)>> \o BulletItems(sc, SolidEnd(sc, g))

\* clean && clean.length > 10
RECURSIVE KeepLong(_)
KeepLong(items) ==
  IF items = <<>> THEN <<>>
  ELSE (IF Len(Head(items)) > 10 THEN <<Head(items)>> ELSE <<>>) \o KeepLong(Tail(items))

RECURSIVE CleanAll(_)
CleanAll(items) ==
  IF items = <<>> THEN <<>>
  ELSE <<collapseWhitespace(stripBold(Head(items)))>> \o CleanAll(Tail(items))

\* mainMatch[1]: /##\s+[^\n]*header[^\n]*\n(.*?)(?=\n## [A-Z]|\Z)/gis. In
\* JavaScript \Z is the letter Z, and under the i flag [A-Z] and Z match
\* either case. "" without match.
MainSpan(c, header) ==
  LET g(p) == LineEnd(c, SkipSpace(c, p + 2)) + 1
      stops(p) == {j \in g(p)..Len(c) :
                     \/ At(c, j, "\n## ") /\ IsLetter(Ch(c, j + 4))
                     \/ LowerCh(Ch(c, j)) = "z"}
      ps == {p \in 1..Len(c) :
               /\ MarkEnds(c, p, "##", header) # {}
               /\ g(p) <= Len(c) + 1
               /\ stops(p) # {}}
  IN IF ps = {} THEN ""
     ELSE SubSeq(c, g(Least(ps)), Least(stops(Least(ps))) - 1)

\* the end of the description of a doubled header that starts at d:
\* (.*?)(?=\n###\s+###|\n###(?!\s+###)|\n##|\Z), every alternative but the
\* letter Z starts with \n##; 0 when the lookahead holds nowhere
DescriptionStop(mm, d) ==
  LET stops == {j \in d..Len(mm) : At(mm, j, "\n##") \/ Ch(mm, j) = "Z"}
  IN IF stops = {} THEN 0 ELSE Least(stops)

\* the start of the title of the doubled header at t, 0 when the pattern does
\* not match at t: ###\s+###\s+([^\n]+)\n with a description that stops
DoubledTitle(mm, t) ==
  LET u == SkipSpace(mm, t + 3)
      qs == {q \in (u + 4)..SkipSpace(mm, u + 3) :
               /\ Ch(mm, q) \notin {"", "\n"}
               /\ LineEnd(mm, q) <= Len(mm)
               /\ DescriptionStop(mm, LineEnd(mm, q) + 1) # 0}
  IN IF /\ At(mm, t, "###") /\ Ch(mm, t + 3) \in WhiteSpace
        /\ At(mm, u, "###") /\ Ch(mm, u + 3) \in WhiteSpace
        /\ qs # {}
     THEN Greatest(qs) ELSE 0

\* h3Pattern, exec after exec: "title: description" or the title, cleaned
RECURSIVE DoubledHeaders(_, _)
DoubledHeaders(mm, from) ==
  LET ts == {t \in from..Len(mm) : DoubledTitle(mm, t) # 0}
  IN IF ts = {} THEN <<>>
     ELSE LET q == DoubledTitle(mm, Least(ts))
              e == LineEnd(mm, q)
              j == DescriptionStop(mm, e + 1)
              title == collapseWhitespace(stripBold(SubSeq(mm, q, e - 1)))
              description == collapseWhitespace(stripBold(SubSeq(mm, e + 1, j - 1)))
          IN <<IF description # "" THEN title \o ": " \o description ELSE title>>
               \o DoubledHeaders(mm, j)

extractSectionItems(content, sectionHeader, subsectionHeader) ==
  LET span == IF subsectionHeader # "" THEN SubsectionSpan(content, sectionHeader, subsectionHeader)
              ELSE HeaderSpan(content, sectionHeader)
      items == KeepLong(CleanAll(BulletItems(span, 1)))
  IN IF items # <<>> THEN items
     ELSE KeepLong(DoubledHeaders(MainSpan(content, sectionHeader), 1))

\* ---- extractQuotes ----
NoMatch == [end |-> 0, text |-> "", speaker |-> ""]

\* "([^"]+)" with the opening quote at q: the position of the closing quote,
\* 0 without match
ClosingQuote(c, q) ==
  LET rs == {r \in (q + 1)..Len(c) : Ch(c, r) = "\""}
  IN IF Ch(c, q) = "\"" /\ rs # {} /\ Least(rs) > q + 1 THEN Least(rs) ELSE 0

\* \s*([^.\n]+) from position a: the start of the capture (the whitespace is
\* greedy and gives back what the capture needs), 0 without match
SpeakerStart(c, a) ==
  LET ss == {x \in a..SkipSpace(c, a) : Ch(c, x) \notin {"", ".", "\n"}}
  IN IF ss = {} THEN 0 ELSE Greatest(ss)

SpeakerEnd(c, x) == Least({j \in x..(Len(c) + 1) : Ch(c, j) \in {"", ".", "\n"}})

\* pattern1 at p:
\* />\s*\*\*Quote that stands out:\*\*\s*\n?\s*>\s*"([^"]+)"\s*(?:-\s*([^.\n]+))?/
\* (the dash is the em dash)
Pattern1At(c, p) ==
  LET q == SkipSpace(c, p + 1)
      a == SkipSpace(c, q + Len("**Quote that stands out:**"))
      b == SkipSpace(c, a + 1)
      r == ClosingQuote(c, b)
      d == SkipSpace(c, r + 1)
      x == SpeakerStart(c, d + 1)
  IN IF ~(Ch(c, p) = ">" /\ At(c, q, "**Quote that stands out:**") /\ Ch(c, a) = ">" /\ r # 0)
     THEN NoMatch
     ELSE IF Ch(c, d) = EmDash /\ x # 0
     THEN [end |-> SpeakerEnd(c, x), text |-> Trim(SubSeq(c, b + 1, r - 1)),
           speaker |-> LET t == Trim(SubSeq(c, x, SpeakerEnd(c, x) - 1))
                       IN IF t = "" THEN "Unknown" ELSE t]
     ELSE [end |-> d, text |-> Trim(SubSeq(c, b + 1, r - 1)), speaker |-> "Unknown"]

\* pattern2 at p: />\s*"([^"]+)"\s*(?:\.\.\.\s*"([^"]+)")?\s*-\s*([^.\n]+)/
Pattern2At(c, p) ==
  LET q == SkipSpace(c, p + 1)
      r == ClosingQuote(c, q)
      a == SkipSpace(c, r + 1)
      r2 == IF At(c, a, "...") THEN ClosingQuote(c, SkipSpace(c, a + 3)) ELSE 0
      d == IF r2 # 0 THEN SkipSpace(c, r2 + 1) ELSE a
      x == SpeakerStart(c, d + 1)
      first == SubSeq(c, q + 1, r - 1)
  IN IF ~(Ch(c, p) = ">" /\ r # 0 /\ Ch(c, d) = EmDash /\ x # 0) THEN NoMatch
     ELSE [end |-> SpeakerEnd(c, x),
           text |-> Trim(IF r2 # 0
                         THEN first \o "... " \o SubSeq(c, SkipSpace(c, a + 3) + 1, r2 - 1)
                         ELSE first),
           speaker |-> Trim(SubSeq(c, x, SpeakerEnd(c, x) - 1))]

\* pattern3 at p: />\s*"([^"]+)"\s*$/ under the m flag
Pattern3At(c, p) ==
  LET q == SkipSpace(c, p + 1)
      r == ClosingQuote(c, q)
  IN IF Ch(c, p) = ">" /\ r # 0 /\ SkipSpace(c, r + 1) >= LineEnd(c, r + 1)
     THEN [end |-> r + 1, text |-> Trim(SubSeq(c, q + 1, r - 1)), speaker |-> "Unknown"]
     ELSE NoMatch

\* q.text.includes(text)
Includes(s, text) == \E i \in 1..(Len(s) + 1) : At(s, i, text)

\* the exec loops of pattern1 and pattern2 from lastIndex `from`: every match
\* is pushed
RECURSIVE Pattern1Quotes(_, _)
Pattern1Quotes(c, from) ==
  LET ps == {p \in from..Len(c) : Pattern1At(c, p).end # 0}
  IN IF ps = {} THEN <<>>
     ELSE LET m == Pattern1At(c, Least(ps))
          IN <<[text |-> m.text, speaker |-> m.speaker]>> \o Pattern1Quotes(c, m.end)

RECURSIVE Pattern2Quotes(_, _)
Pattern2Quotes(c, from) ==
  LET ps == {p \in from..Len(c) : Pattern2At(c, p).end # 0}
  IN IF ps = {} THEN <<>>
     ELSE LET m == Pattern2At(c, Least(ps))
          IN <<[text |-> m.text, speaker |-> m.speaker]>> \o Pattern2Quotes(c, m.end)

\* the exec loop of pattern3: a match is pushed unless a quote pushed so far
\* holds its text
RECURSIVE Pattern3Quotes(_, _, _)
Pattern3Quotes(c, from, results) ==
  LET ps == {p \in from..Len(c) : Pattern3At(c, p).end # 0}
  IN IF ps = {} THEN results
     ELSE LET m == Pattern3At(c, Least(ps))
              alreadyCaptured == \E k \in 1..Len(results) : Includes(results[k].text, m.text)
          IN Pattern3Quotes(c, m.end,
               IF alreadyCaptured THEN results
               ELSE Append(results, [text |-> m.text, speaker |-> "Unknown"]))

extractQuotes(content) ==
  Pattern3Quotes(content, 1, Pattern1Quotes(content, 1) \o Pattern2Quotes(content, 1))

\* ---- extractMemorableExchanges, extractKnowledgeNuggets: the section ----
\* with the header's ## at p: the positions right after the section name for
\* `##\s+[^#\n]*name`, the name compared with or without case
NameEnds(c, p, name, fold) ==
  IF ~(At(c, p, "##") /\ Ch(c, p + 2) \in WhiteSpace) THEN {}
  ELSE LET q == SkipSpace(c, p + 2)
       IN {h + Len(name) :
             h \in {h \in q..LineEnd(c, q) :
                      /\ IF fold THEN AtFold(c, h, name) ELSE At(c, h, name)
                      /\ \A k \in q..(h - 1) : Ch(c, k) # "#"}}

\* match[0] of /##\s+[^#\n]*name.*?(?=stop|\Z)/ (dot matches line feeds):
\* from the header to the first position where `stop` stands or the letter Z
\* does (either case under the i flag); "" without match, so also when
\* neither follows the header
SectionText(c, name, stop, fold) ==
  LET stops(g) == {j \in g..Len(c) :
                     \/ At(c, j, stop)
                     \/ Ch(c, j) = "Z"
                     \/ fold /\ Ch(c, j) = "z"}
      found(p) == {g \in NameEnds(c, p, name, fold) : stops(g) # {}}
      ps == {p \in 1..Len(c) : found(p) # {}}
  IN IF ps = {} THEN ""
     ELSE SubSeq(c, Least(ps), Least(stops(Greatest(found(Least(ps))))) - 1)

\* value.split('\n')
RECURSIVE SplitLines(_)
SplitLines(s) ==
  IF LineEnd(s, 1) > Len(s) THEN <<s>>
  ELSE <<SubSeq(s, 1, LineEnd(s, 1) - 1)>> \o SplitLines(From(s, LineEnd(s, 1) + 1))

\* quoteText.replace(/^[">\s]*|["<\s]*$/g, ''): the leading run is removed;
\* the search goes on after it (one character on after an empty match) and
\* removes the run that reaches the end of the text
CleanQuoteText(quoteText) ==
  LET leading == {"\"", ">"} \cup WhiteSpace
      trailing == {"\"", "<"} \cup WhiteSpace
      first == Least({i \in 1..(Len(quoteText) + 1) : Ch(quoteText, i) \notin leading})
      resume == IF first > 1 THEN first ELSE 2
      last == Least({i \in resume..(Len(quoteText) + 1) :
                       \A k \in i..Len(quoteText) : Ch(quoteText, k) \in trailing})
  IN IF quoteText = "" THEN "" ELSE SubSeq(quoteText, first, last - 1)

\* the two branches of the loop body, on the trimmed line
IsDialogueLine(line) ==
  \/ At(line, 1, "> \"")
  \/ /\ At(line, 1, ">")
     /\ ~Includes(line, "_" \o EmDash)
     /\ ~Includes(line, "_" \o EnDash)

IsAttributionLine(line) ==
  /\ At(line, 1, "> _")
  /\ Includes(line, EmDash) \/ Includes(line, EnDash) \/ Includes(line, "-")

\* the loop over the lines from line i on, with the dialogue collected so far
RECURSIVE ExchangeLines(_, _, _)
ExchangeLines(lines, i, currentDialogue) ==
  IF i > Len(lines) THEN <<>>
  ELSE LET line == Trim(lines[i])
           cleanText == CleanQuoteText(Trim(From(line, 2)))
       IN IF IsDialogueLine(line)
          THEN ExchangeLines(lines, i + 1,
                 IF cleanText # "" THEN Append(currentDialogue, cleanText)
                 ELSE currentDialogue)
          ELSE IF IsAttributionLine(line)
          THEN (IF currentDialogue # <<>>
                THEN <<[dialogue |-> currentDialogue, context |-> Trim(From(line, 2))]>>
                ELSE <<>>) \o ExchangeLines(lines, i + 1, <<>>)
          ELSE ExchangeLines(lines, i + 1, currentDialogue)

extractMemorableExchanges(content) ==
  LET sectionContent == SectionText(content, "Memorable Exchanges", "\n##", TRUE)
  IN IF sectionContent = "" THEN <<>>
     ELSE ExchangeLines(SplitLines(sectionContent), 1, <<>>)

\* ---- extractRecurringThemes ----
\* value.replace(/>\s*\*\*Quote.*?\*\*.*$/gms, '').trim(): with the s flag
\* the tail .*$ runs to the end of the value
stripQuotes(value) ==
  LET ps == {p \in 1..Len(value) :
               /\ Ch(value, p) = ">"
               /\ At(value, SkipSpace(value, p + 1), "**Quote")
               /\ \E k \in (SkipSpace(value, p + 1) + 7)..Len(value) : At(value, k, "**")}
  IN IF ps = {} THEN Trim(value) ELSE Trim(SubSeq(value, 1, Least(ps) - 1))

\* themePattern /### [^#\n]*Recurring Theme[^#\n]*\n(.*?)(?=###|##|#|$)/gis
\* at p: the start of the capture, 0 without match
ThemeBlockAt(c, p) ==
  LET e == LineEnd(c, p)
      hs == {h \in (p + 4)..e : AtFold(c, h, "Recurring Theme")}
  IN IF /\ At(c, p, "### ") /\ hs # {} /\ e <= Len(c)
        /\ \A k \in (p + 4)..(e - 1) : Ch(c, k) # "#"
     THEN e + 1 ELSE 0

\* the bullet pattern of the themes at line start p:
\* /^\s*[-*]\s+\*\*([^:*]+):\*\*\s*(.+?)(?=^\s*[-*]\s+\*\*|$)/gms
ThemeBulletAt(sc, p) ==
  LET b == SkipSpace(sc, p)
      a == SkipSpace(sc, b + 1)
      te == Least({k \in (a + 2)..(Len(sc) + 1) : Ch(sc, k) \in {"", ":", "*"}})
      ds == SkipSpace(sc, te + 3)
      d == IF ds <= Len(sc) THEN ds ELSE IF ds - 1 >= te + 3 THEN ds - 1 ELSE 0
  IN IF /\ LineStart(sc, p) /\ Ch(sc, b) \in {"-", "*"} /\ Ch(sc, b + 1) \in WhiteSpace
        /\ At(sc, a, "**") /\ te > a + 2 /\ At(sc, te, ":**") /\ d # 0
     THEN [end |-> LineEnd(sc, d + 1), title |-> SubSeq(sc, a + 2, te - 1),
           description |-> SubSeq(sc, d, LineEnd(sc, d + 1) - 1)]
     ELSE [end |-> 0, title |-> "", description |-> ""]

RECURSIVE ThemeBullets(_, _)
ThemeBullets(sc, from) ==
  LET ps == {p \in from..Len(sc) : ThemeBulletAt(sc, p).end # 0}
  IN IF ps = {} THEN <<>>
     ELSE LET m == ThemeBulletAt(sc, Least(ps))
              title == collapseWhitespace(m.title)
              description == collapseWhitespace(stripQuotes(m.description))
          IN (IF Includes(ToLower(title), "quote that stands out") THEN <<>>
              ELSE <<[title |-> title,
                      description |-> IF Len(description) > 500
                                      THEN SubSeq(description, 1, 500) \o "..."
                                      ELSE description]>>)
               \o ThemeBullets(sc, m.end)

RECURSIVE ThemeBlocks(_, _)
ThemeBlocks(c, from) ==
  LET ps == {p \in from..Len(c) : ThemeBlockAt(c, p) # 0}
  IN IF ps = {} THEN <<>>
     ELSE LET g == ThemeBlockAt(c, Least(ps))
              sectionContent == UpToHash(c, g)
          IN ThemeBullets(sectionContent, 1) \o ThemeBlocks(c, g + Len(sectionContent))

extractRecurringThemes(content) == ThemeBlocks(content, 1)

\* ---- extractKnowledgeNuggets ----
\* the bullet pattern of the nuggets at p:
\* /\*\s+\*\*([^:]*?):\*\*\s+(.+?)(?=\n\s*\*\s+\*\*|\n\n|\Z)/gms
NuggetBulletAt(sc, p) ==
  LET a == SkipSpace(sc, p + 1)
      k == Least({k \in (a + 2)..(Len(sc) + 1) : Ch(sc, k) \in {"", ":"}})
      stops(f) == {j \in (f + 1)..Len(sc) :
                     \/ At(sc, j, "\n") /\ At(sc, SkipSpace(sc, j + 1), "*")
                          /\ Ch(sc, SkipSpace(sc, j + 1) + 1) \in WhiteSpace
                          /\ At(sc, SkipSpace(sc, SkipSpace(sc, j + 1) + 1), "**")
                     \/ At(sc, j, "\n\n")
                     \/ Ch(sc, j) = "Z"}
      fs == {f \in (k + 4)..SkipSpace(sc, k + 3) : f <= Len(sc) /\ stops(f) # {}}
  IN IF /\ Ch(sc, p) = "*" /\ Ch(sc, p + 1) \in WhiteSpace /\ At(sc, a, "**")
        /\ At(sc, k, ":**") /\ Ch(sc, k + 3) \in WhiteSpace /\ fs # {}
     THEN [end |-> Least(stops(Greatest(fs))), category |-> SubSeq(sc, a + 2, k - 1),
           fact |-> SubSeq(sc, Greatest(fs), Least(stops(Greatest(fs))) - 1)]
     ELSE [end |-> 0, category |-> "", fact |-> ""]

\* factText.match(/_Source:\s*([^_\n]+)_?$/): the match as
\* [at, from, to] (positions of the match and of the capture), at = 0 without
SourceMatch(factText) ==
  LET to(x) == Least({j \in x..(Len(factText) + 1) : Ch(factText, j) \in {"", "_", "\n"}})
      starts(i) == {x \in (i + 8)..SkipSpace(factText, i + 8) :
                      /\ to(x) > x
                      /\ \/ to(x) = Len(factText) + 1
                         \/ to(x) = Len(factText) /\ Ch(factText, to(x)) = "_"}
      is == {i \in 1..Len(factText) : At(factText, i, "_Source:") /\ starts(i) # {}}
  IN IF is = {} THEN [at |-> 0, from |-> 0, to |-> 0]
     ELSE [at |-> Least(is), from |-> Greatest(starts(Least(is))),
           to |-> to(Greatest(starts(Least(is))))]

\* an undefined category or source is written ""
RECURSIVE NuggetBullets(_, _)
NuggetBullets(sc, from) ==
  LET ps == {p \in from..Len(sc) : NuggetBulletAt(sc, p).end # 0}
  IN IF ps = {} THEN <<>>
     ELSE LET m == NuggetBulletAt(sc, Least(ps))
              factText == Trim(m.fact)
              sourceMatch == SourceMatch(factText)
          IN <<[category |-> Trim(m.category),
                fact |-> IF sourceMatch.at # 0
                         THEN Trim(SubSeq(factText, 1, sourceMatch.at - 1))
                         ELSE factText,
                source |-> IF sourceMatch.at # 0
                           THEN Trim(SubSeq(factText, sourceMatch.from, sourceMatch.to - 1))
                           ELSE ""]>>
               \o NuggetBullets(sc, m.end)

extractKnowledgeNuggets(content) ==
  NuggetBullets(SectionText(content, "Knowledge Nuggets", "\n##", TRUE), 1)

\* ---- extractTopHighlights ----
\* /(?:###\s*Top Highlights|\*\*Top Highlights\*\*)\s*\n(.*?)(?=\n##)/gis at
\* p: match[1], "" without match. The whitespace before the capture is
\* greedy and ends with the last line feed after which a \n## still follows.
HighlightBlockAt(c, p) ==
  LET a == IF At(c, p, "###") /\ AtFold(c, SkipSpace(c, p + 3), "Top Highlights")
           THEN SkipSpace(c, p + 3) + Len("Top Highlights")
           ELSE IF AtFold(c, p, "**Top Highlights**") THEN p + Len("**Top Highlights**")
           ELSE 0
      stops(g) == {j \in g..Len(c) : At(c, j, "\n##")}
      ns == {n \in a..(SkipSpace(c, a) - 1) : Ch(c, n) = "\n" /\ stops(n + 1) # {}}
  IN IF a = 0 \/ ns = {} THEN [found |-> FALSE, text |-> ""]
     ELSE [found |-> TRUE,
           text |-> SubSeq(c, Greatest(ns) + 1, Least(stops(Greatest(ns) + 1)) - 1)]

\* line.match(/^\s*\*\s+(.+)$/): the capture, "" without match
HighlightLine(line) ==
  LET b == SkipSpace(line, 1)
      t == SkipSpace(line, b + 1)
  IN IF Ch(line, b) = "*" /\ Ch(line, b + 1) \in WhiteSpace /\ t <= Len(line)
     THEN From(line, t) ELSE ""

RECURSIVE HighlightLines(_, _)
HighlightLines(lines, i) ==
  IF i > Len(lines) THEN <<>>
  ELSE <<collapseWhitespace(stripBold(HighlightLine(lines[i])))>> \o HighlightLines(lines, i + 1)

extractTopHighlights(content) ==
  LET ps == {p \in 1..Len(content) : HighlightBlockAt(content, p).found}
  IN IF ps = {} THEN <<>>
     ELSE KeepLong(HighlightLines(SplitLines(HighlightBlockAt(content, Least(ps)).text), 1))

\* ---- extractStructuredData ----
\* triplePattern /^### ### (.+?)\n(.*?)(?=\n### ###|\n## |\n### [^#]|\Z)/gms
\* at line start p of the Key Follow-Ups section
TripleAt(section, p) ==
  LET es == {k \in (p + 9)..Len(section) : Ch(section, k) = "\n"}
      stops(d) == {j \in d..Len(section) :
                     \/ At(section, j, "\n### ###")
                     \/ At(section, j, "\n## ")
                     \/ At(section, j, "\n### ") /\ Ch(section, j + 5) \notin {"", "#"}
                     \/ Ch(section, j) = "Z"}
  IN IF /\ LineStart(section, p) /\ At(section, p, "### ### ")
        /\ es # {} /\ stops(Least(es) + 1) # {}
     THEN [end |-> Least(stops(Least(es) + 1)),
           title |-> SubSeq(section, p + 8, Least(es) - 1),
           description |-> SubSeq(section, Least(es) + 1, Least(stops(Least(es) + 1)) - 1)]
     ELSE [end |-> 0, title |-> "", description |-> ""]

RECURSIVE TripleItems(_, _)
TripleItems(section, from) ==
  LET ps == {p \in from..Len(section) : TripleAt(section, p).end # 0}
  IN IF ps = {} THEN <<>>
     ELSE LET m == TripleAt(section, Least(ps))
              title == collapseWhitespace(stripBold(m.title))
              description == collapseWhitespace(stripBold(Head(SplitLines(m.description))))
          IN <<IF description # "" THEN title \o ": " \o description ELSE title>>
               \o TripleItems(section, m.end)

\* the pre-pass: `### ### Title` items of the Key Follow-Ups section
KeyFollowUps(content) ==
  IF ~Includes(content, "Key Follow-Ups") THEN <<>>
  ELSE KeepLong(TripleItems(SectionText(content, "Key Follow-Ups", "\n## ", FALSE), 1))

\* a field with its fallback: `if (field.length === 0) field.push(...fallback)`
OrElse(primary, fallback) == IF primary = <<>> THEN fallback ELSE primary

extractStructuredData(content) ==
  [actionItems |->
     OrElse(KeyFollowUps(content)
              \o extractSectionItems(content, "Key Follow-Ups", "For You to Action")
              \o extractSectionItems(content, "Key Follow-Ups", "Household To-Dos"),
            extractSectionItems(content, "Commitment Tracker", "Promises from You")),
   decisions |->
     OrElse(extractSectionItems(content, "Decision Log", "Decisions Made"),
            extractSectionItems(content, "Strategic Decisions Made", "")),
   ideas |->
     OrElse(extractSectionItems(content, "Idea Sandbox", "Seeds of an Idea"),
            extractSectionItems(content, "Ideas to Explore", "")),
   questions |->
     extractSectionItems(content, "Open Questions to Resolve", "")
       \o extractSectionItems(content, "Unresolved Questions", ""),
   themes |-> extractRecurringThemes(content),
   quotes |-> extractQuotes(content),
   highlights |-> extractTopHighlights(content),
   knowledgeNuggets |-> extractKnowledgeNuggets(content),
   memorableExchanges |-> extractMemorableExchanges(content)]

\* ---- the extractors of the approved sections (discovery service) ----
\* The discovery service has extractors of its own for the two sections; they
\* carry the names of the engine's and are written here with a prefix.
\* bulletPattern /\*\s+\*\*([^:]*?):\*\*\s+(.+?)(?=\*\s+\*\*|\n\s*$)/gms at p
ApprovedNuggetAt(sc, p) ==
  LET a == SkipSpace(sc, p + 1)
      k == Least({k \in (a + 2)..(Len(sc) + 1) : Ch(sc, k) \in {"", ":"}})
      stops(f) == {j \in (f + 1)..Len(sc) :
                     \/ /\ Ch(sc, j) = "*" /\ Ch(sc, j + 1) \in WhiteSpace
                        /\ At(sc, SkipSpace(sc, j + 1), "**")
                     \/ /\ Ch(sc, j) = "\n"
                        /\ \E x \in (j + 1)..SkipSpace(sc, j + 1) :
                             x = Len(sc) + 1 \/ Ch(sc, x) = "\n"}
      fs == {f \in (k + 4)..SkipSpace(sc, k + 3) : f <= Len(sc) /\ stops(f) # {}}
  IN IF /\ Ch(sc, p) = "*" /\ Ch(sc, p + 1) \in WhiteSpace /\ At(sc, a, "**")
        /\ At(sc, k, ":**") /\ Ch(sc, k + 3) \in WhiteSpace /\ fs # {}
     THEN [end |-> Least(stops(Greatest(fs))), category |-> SubSeq(sc, a + 2, k - 1),
           fact |-> SubSeq(sc, Greatest(fs), Least(stops(Greatest(fs))) - 1)]
     ELSE [end |-> 0, category |-> "", fact |-> ""]

\* the loop of the bullets; factText.match(/_Source: ([^_]+)_?$/) matches
\* where `_Source: ` is followed by text without underscore up to the end of
\* factText or to a last underscore; a null source is written ""
RECURSIVE ApprovedNuggets(_, _)
ApprovedNuggets(sc, from) ==
  LET ps == {p \in from..Len(sc) : ApprovedNuggetAt(sc, p).end # 0}
  IN IF ps = {} THEN <<>>
     ELSE LET m == ApprovedNuggetAt(sc, Least(ps))
              factText == Trim(m.fact)
              to(x) == Least({j \in x..(Len(factText) + 1) : Ch(factText, j) \in {"", "_"}})
              is == {i \in 1..Len(factText) :
                       /\ At(factText, i, "_Source: ")
                       /\ to(i + 9) > i + 9
                       /\ to(i + 9) >= Len(factText)}
          IN <<[category |-> Trim(m.category),
                fact |-> IF is # {} THEN Trim(SubSeq(factText, 1, Least(is) - 1))
                         ELSE factText,
                source |-> IF is # {}
                           THEN Trim(SubSeq(factText, Least(is) + 9, to(Least(is) + 9) - 1))
                           ELSE ""]>>
               \o ApprovedNuggets(sc, m.end)

\* sectionPattern /## Knowledge Nuggets.*?(?=\n## [A-Z]|\Z)/gis
approvedKnowledgeNuggets(content) ==
  LET stops(p) == {j \in (p + Len("## Knowledge Nuggets"))..Len(content) :
                     \/ At(content, j, "\n## ") /\ IsLetter(Ch(content, j + 4))
                     \/ LowerCh(Ch(content, j)) = "z"}
      ps == {p \in 1..Len(content) :
               AtFold(content, p, "## Knowledge Nuggets") /\ stops(p) # {}}
  IN IF ps = {} THEN <<>>
     ELSE ApprovedNuggets(SubSeq(content, Least(ps), Least(stops(Least(ps))) - 1), 1)

\* the loop over the lines: the dialogue test leaves out only `_` followed by
\* an em dash
RECURSIVE ApprovedExchangeLines(_, _, _)
ApprovedExchangeLines(lines, i, currentDialogue) ==
  IF i > Len(lines) THEN <<>>
  ELSE LET line == Trim(lines[i])
           cleanText == CleanQuoteText(Trim(From(line, 2)))
       IN IF At(line, 1, "> \"") \/ (At(line, 1, ">") /\ ~Includes(line, "_" \o EmDash))
          THEN ApprovedExchangeLines(lines, i + 1,
                 IF cleanText # "" THEN Append(currentDialogue, cleanText)
                 ELSE currentDialogue)
          ELSE IF IsAttributionLine(line)
          THEN (IF currentDialogue # <<>>
                THEN <<[dialogue |-> currentDialogue, context |-> Trim(From(line, 2))]>>
                ELSE <<>>) \o ApprovedExchangeLines(lines, i + 1, <<>>)
          ELSE ApprovedExchangeLines(lines, i + 1, currentDialogue)

\* sectionPattern /## Memorable Exchanges (glyph)[\s\S]*?(?=\n## |\Z)/g; the
\* glyph of the pattern is the speech balloon, which Glyph stands for
approvedMemorableExchanges(content) ==
  LET header == "## Memorable Exchanges " \o Glyph
      stops(p) == {j \in (p + Len(header))..Len(content) :
                     At(content, j, "\n## ") \/ Ch(content, j) = "Z"}
      ps == {p \in 1..Len(content) : At(content, p, header) /\ stops(p) # {}}
  IN IF ps = {} THEN <<>>
     ELSE ApprovedExchangeLines(
            SplitLines(SubSeq(content, Least(ps), Least(stops(Least(ps))) - 1)), 1, <<>>)

\* ---- the documents of the bounded check ----
RECURSIVE JoinLines(_)
JoinLines(lines) ==
  IF lines = <<>> THEN "" ELSE Head(lines) \o "\n" \o JoinLines(Tail(lines))

LineSeqs(S, n) == UNION {[1..k -> S] : k \in 0..n}

\* the documents that open with a line of `first` and go on with at most
\* MaxBodyLines lines of `body`
DocsOf(first, body) ==
  {JoinLines(<<h>> \o b) : h \in first, b \in LineSeqs(body, MaxBodyLines)}

LongBullet == "* decided to ship it"
HashBullet == "* fix #12 in the parser"
ShortBullet == "* tiny"

DecisionDocs ==
  DocsOf({"## Decision Log", "## Strategic Decisions Made"},
         {"## Decision Log", "## Strategic Decisions Made", "### Decisions Made",
          LongBullet, HashBullet, ShortBullet})

QuoteLine == "> \"hello\""
AliceLine == "> _" \o EmDash \o " Alice_"
HyphenLine == "> _- Bob_"

ExchangeDocs ==
  DocsOf({"## Memorable Exchanges"},
         {QuoteLine, AliceLine, HyphenLine, QuoteLine \o " " \o EmDash \o " Alice",
          "## Next"})

ThemeDocs ==
  DocsOf({"### Recurring Theme Noticed", "## Knowledge Nuggets"},
         {"- **T:** d", "* **Geo:** Oslo _Source: atlas_", "* **Rivers:** the Nile flows north",
          "## Next"})

Documents == DecisionDocs \cup ExchangeDocs \cup ThemeDocs

\* documents about follow-ups: `### ### Title` items with a description line,
\* a bulleted subsection, a section whose title starts with a digit, and the
\* Commitment Tracker section before or after the Key Follow-Ups header
CallItem == "### ### Call the dentist\ntomorrow morning"
RentItem == "### ### Pay the rent\nbefore Friday"
ForYouBlock == "### For You to Action\n* email the landlord now"
PromisesBlock == "## Commitment Tracker\n### Promises from You\n* send the signed form"

FollowUpDocs ==
  DocsOf({"## Key Follow-Ups", PromisesBlock \o "\n## Key Follow-Ups"},
         {CallItem, RentItem, ForYouBlock, "## 2nd part", PromisesBlock})

\* documents about order and repetition: one quote under each of the three
\* quote patterns, and the two bulleted subsections of Key Follow-Ups
StandsOutLine == "> **Quote that stands out:**"
OtherLine == "> \"other\""
HouseholdBlock == "### Household To-Dos\n* water the plants today"

QuoteDocs ==
  DocsOf({"## Notes"},
         {StandsOutLine, QuoteLine, QuoteLine \o " " \o EmDash \o " Alice",
          OtherLine, OtherLine \o " " \o EmDash \o " Bob"})

ToDoDocs == DocsOf({"## Key Follow-Ups"}, {ForYouBlock, HouseholdBlock, "## Next"})

SequenceDocs == QuoteDocs \cup ToDoDocs

NoData ==
  [actionItems |-> <<>>, decisions |-> <<>>, ideas |-> <<>>, questions |-> <<>>,
   themes |-> <<>>, quotes |-> <<>>, highlights |-> <<>>,
   knowledgeNuggets |-> <<>>, memorableExchanges |-> <<>>]

\* ---- the derived rows of one stored document ----
\* The nine derived tables, restricted to the rows of the one document of the
\* store and to the columns written from its content, in rowid order.
SectionTypes == {"knowledge_nuggets", "memorable_exchanges"}

NuggetsDoc ==
  JoinLines(<<"## Knowledge Nuggets", "* **Geo:** Oslo is north", "", "",
              "## Memorable Exchanges " \o Glyph, QuoteLine, AliceLine,
              "## Decision Log", "### Decisions Made", LongBullet>>)

GlyphDoc ==
  JoinLines(<<"## " \o Glyph \o " Knowledge Nuggets", "* **Geo:** Oslo is north", "", "",
              "## Key Follow-Ups", "### For You to Action", "* call the bank today">>)

PlainDoc == JoinLines(<<"## Decision Log", "### Decisions Made", LongBullet>>)

StoreDocuments == {NuggetsDoc, GlyphDoc, PlainDoc}

StoreDays == {1, 2}

\* extractStructuredData and the extractors of the approved sections on the
\* documents of the store, evaluated once
StructuredOf == [content \in StoreDocuments |-> extractStructuredData(content)]

ApprovedOf ==
  [content \in StoreDocuments |->
     [knowledge_nuggets |-> approvedKnowledgeNuggets(content),
      memorable_exchanges |-> approvedMemorableExchanges(content)]]

\* the nine `db.delete(table).where(eq(table.insightId, insightId))`
DeleteStructuredNone(derived) == derived

DeleteStructured(derived) == [t \in DOMAIN derived |-> <<>>]

\* the rows `items.map((item) => ({...}))` with the one column `content`
ContentRows(items) == [k \in 1..Len(items) |-> [content |-> items[k]]]

\* the inserts both refresh functions share: the seven tables of the
\* engine's fields other than nuggets and exchanges
InsertStructured(derived, structured) ==
  [derived EXCEPT
     !.actionItems = @ \o [k \in 1..Len(structured.actionItems) |->
                             [content |-> structured.actionItems[k], source |-> "LIMITLESS"]],
     !.decisions = @ \o ContentRows(structured.decisions),
     !.ideas = @ \o ContentRows(structured.ideas),
     !.questions = @ \o [k \in 1..Len(structured.questions) |->
                           [content |-> structured.questions[k], resolved |-> FALSE]],
     !.themes = @ \o structured.themes,
     !.quotes = @ \o [k \in 1..Len(structured.quotes) |->
                        [textContent |-> structured.quotes[k].text,
                         speaker |-> structured.quotes[k].speaker]],
     !.highlights = @ \o ContentRows(structured.highlights)]

\* dataService, refreshInsightStructure: the deletes and the inserts
refreshInsightStructure(derived, structured) ==
  [InsertStructured(DeleteStructured(derived), structured) EXCEPT
     !.knowledgeNuggets = @ \o structured.knowledgeNuggets,
     !.memorableExchanges = @ \o structured.memorableExchanges]

\* discovery service: the rows added for every approved section
processApprovedSections(derived, approved, content) ==
  [derived EXCEPT
     !.knowledgeNuggets =
        @ \o (IF "knowledge_nuggets" \in approved
              THEN ApprovedOf[content].knowledge_nuggets ELSE <<>>),
     !.memorableExchanges =
        @ \o (IF "memorable_exchanges" \in approved
              THEN ApprovedOf[content].memorable_exchanges ELSE <<>>)]

\* syncService, refreshStructuredData: the deletes and the inserts
refreshStructuredData(derived, structured, approved, content) ==
  processApprovedSections(
    InsertStructured(DeleteStructured(derived), structured), approved, content)

\* checkForNewDiscoveries: a section found in the user's recent documents and
\* not recorded yet is recorded as pending. The sections found depend on the
\* other documents of the user as well, which the store of the model leaves
\* out: `found` is any set of sections.
checkForNewDiscoveries(discoveries, found) ==
  [t \in SectionTypes |->
     IF t \in found /\ discoveries[t] = "none" THEN "pending" ELSE discoveries[t]]

\* pc: "idle" between calls, "extract" and "write" inside a refresh;
\* stored: the insights row exists; op: the entry point of the last refresh,
\* prev: the one of the refresh before it, kept: the last refresh found the
\* content it was called with already stored
IdleEng ==
  [pc |-> "idle", content |-> "", structured |-> NoData, stored |-> FALSE,
   date |-> 0, derived |-> NoData, discoveries |-> [t \in SectionTypes |-> "none"],
   via |-> "none", op |-> "none", prev |-> "none", kept |-> FALSE]

OtherVars ==
  <<apiKey, insightsTbl, actionItemsTbl, lifelogsTbl, syncMetadata, now,
    proc, runs, failures, edits, userCompleted, userEdited, hist, sched>>

\* an entry point wrote the insights row (or read it) and calls the refresh
\* function `via` with the content
CallRefresh(content, date, via, op) ==
  [eng EXCEPT !.pc = "extract", !.stored = TRUE, !.content = content, !.date = date,
              !.via = via, !.op = op, !.prev = eng.op,
              !.kept = eng.stored /\ eng.content = content]

\* runSyncForUser, for a chat of a day without document: insert, refresh
SyncInsert(content, date) ==
  /\ eng.pc = "idle" /\ ~eng.stored
  /\ eng' = CallRefresh(content, date, "refreshStructuredData", "syncInsert")
  /\ UNCHANGED OtherVars

\* runSyncForUser, for a chat of the day of the document with another
\* content: update, refresh
SyncUpdate(content) ==
  /\ eng.pc = "idle" /\ eng.stored
  /\ eng.content # content
  /\ eng' = CallRefresh(content, eng.date, "refreshStructuredData", "syncUpdate")
  /\ UNCHANGED OtherVars

createInsight(content, date) ==
  /\ eng.pc = "idle" /\ ~eng.stored
  /\ eng' = CallRefresh(content, date, "refreshInsightStructure", "createInsight")
  /\ UNCHANGED OtherVars

updateInsight(content) ==
  /\ eng.pc = "idle" /\ eng.stored
  /\ eng' = CallRefresh(content, eng.date, "refreshInsightStructure", "updateInsight")
  /\ UNCHANGED OtherVars

\* the three reprocessing entry points: the stored document, when the query
\* selects it, is refreshed with its own content
Reprocess(selected, op) ==
  /\ eng.pc = "idle" /\ eng.stored
  /\ selected
  /\ eng' = CallRefresh(eng.content, eng.date, "refreshInsightStructure", op)
  /\ UNCHANGED OtherVars

reprocessAllInsights == Reprocess(TRUE, "reprocessAllInsights")

reprocessInsightByDate(date) == Reprocess(eng.date = date, "reprocessInsightByDate")

reprocessInsightsByDateRange(startDate, endDate) ==
  Reprocess(eng.date >= startDate /\ eng.date <= endDate, "reprocessInsightsByDateRange")

ReprocessOps ==
  {"reprocessAllInsights", "reprocessInsightByDate", "reprocessInsightsByDateRange"}

\* both refresh functions: const structured = extractStructuredData(content, date)
RefreshExtract ==
  /\ eng.pc = "extract"
  /\ eng' = [eng EXCEPT !.pc = "write", !.structured = StructuredOf[eng.content]]
  /\ UNCHANGED OtherVars

\* refreshInsightStructure after the extraction
RefreshInsightWrite ==
  /\ eng.pc = "write" /\ eng.via = "refreshInsightStructure"
  /\ eng' = [eng EXCEPT !.pc = "idle",
                        !.derived = refreshInsightStructure(eng.derived, eng.structured)]
  /\ UNCHANGED OtherVars

\* refreshStructuredData after the extraction; `check` is the draw
\* Math.random() < 0.1
RefreshStructuredWrite(check, found) ==
  /\ eng.pc = "write" /\ eng.via = "refreshStructuredData"
  /\ eng' = [eng EXCEPT
               !.pc = "idle",
               !.derived = refreshStructuredData(
                             eng.derived, eng.structured,
                             {t \in SectionTypes : eng.discoveries[t] = "approved"},
                             eng.content),
               !.discoveries = IF check THEN checkForNewDiscoveries(eng.discoveries, found)
                               ELSE eng.discoveries]
  /\ UNCHANGED OtherVars

\* the discovery routes: approve or dismiss a recorded section
approveDiscovery(t) ==
  /\ eng.discoveries[t] # "none"
  /\ eng' = [eng EXCEPT !.discoveries[t] = "approved"]
  /\ UNCHANGED OtherVars

dismissDiscovery(t) ==
  /\ eng.discoveries[t] # "none"
  /\ eng' = [eng EXCEPT !.discoveries[t] = "dismissed"]
  /\ UNCHANGED OtherVars

\* one call extractStructuredData(content, date)
Extract(content) ==
  /\ eng.pc = "idle"
  /\ eng' = [eng EXCEPT !.pc = "extracted", !.content = content,
                         !.structured = extractStructuredData(content)]
  /\ UNCHANGED <<apiKey, insightsTbl, actionItemsTbl, lifelogsTbl, syncMetadata, now,
                 proc, runs, failures, edits, userCompleted, userEdited, hist, sched>>

(* --------------------------- specification ----------------------------- *)
\* keys: the users that hold a credential
InitFor(keys, maxRuns, maxFailures, tracked) ==
  /\ apiKey = [u \in Users |-> u \in keys]
  /\ insightsTbl = {}
  /\ actionItemsTbl = <<>>
  /\ lifelogsTbl = {}
  /\ syncMetadata = <<>>
  /\ now = 6
  /\ proc = [p \in Procs |-> IdleProc]
  /\ runs = maxRuns
  /\ failures = maxFailures
  /\ edits = 0
  /\ userCompleted = {}
  /\ userEdited = {}
  /\ hist = [u \in Users |->
               [doc |-> IF "doc" \in tracked THEN NoBaseline ELSE Untracked,
                life |-> IF "life" \in tracked THEN NoBaseline ELSE Untracked,
                docFailure |-> ""]]
  /\ sched = [p \in Procs |-> IdleSched]
  /\ eng = IdleEng

InitWith(maxRuns, maxFailures, tracked) == InitFor({1}, maxRuns, maxFailures, tracked)

\* the steps both kinds of sync share
CommonStep(p) ==
  \/ GetUserConfig(p)
  \/ MarkEnsure(p)
  \/ MarkUpdate(p)
  \/ Finish(p)

FailureStep(p) ==
  \/ StorageFailure(p)
  \/ FetchFailure(p)

DocStep(p) ==
  \/ DocLastSync(p)
  \/ DocFetch(p)
  \/ DocSelect(p)
  \/ DocInsert(p)
  \/ DocUpdate(p)
  \/ RefreshDelete(p)
  \/ RefreshInsert(p)

LifeStep(p) ==
  \/ LifeLastSync(p)
  \/ LifeFetch(p)
  \/ LifeSelect(p)
  \/ LifeCreate(p)
  \/ LifeUpdate(p)

UserStep ==
  \/ \E u \in Users, i \in 1..Len(actionItemsTbl) : UserCompleteActionItem(u, i)
  \/ \E u \in Users, r \in insightsTbl : UserEditInsight(u, r.id)

\* One invocation at a time, of either kind, while the clock advances: what the
\* scheduler does. The status query reads the state and changes nothing.
Init == InitWith(MaxRuns, MaxFailures, {})

Next ==
  \/ \E u \in Users, force \in BOOLEAN : StartDocSync(1, u, force)
  \/ \E u \in Users, force \in BOOLEAN : StartLifeSync(1, u, force)
  \/ DocStep(1)
  \/ LifeStep(1)
  \/ CommonStep(1)
  \/ FailureStep(1)
  \/ AdvanceClock

Spec == Init /\ [][Next]_vars

\* Document syncs of all invocation slots interleaved, and the user's edits.
InitDoc == InitWith(MaxRuns, 0, {"doc"})

NextDoc ==
  \/ \E p \in Procs : StartDocSync(p, 1, FALSE)
  \/ \E p \in Procs : DocStep(p) \/ CommonStep(p)
  \/ UserStep

SpecDoc == InitDoc /\ [][NextDoc]_vars

\* Life-log syncs of all invocation slots interleaved.
InitLife == InitWith(MaxRuns, 0, {"life"})

NextLife ==
  \/ \E p \in Procs, force \in BOOLEAN : StartLifeSync(p, 1, force)
  \/ \E p \in Procs : LifeStep(p) \/ CommonStep(p)

SpecLife == InitLife /\ [][NextLife]_vars

\* the steps of the sync invocation in slot i, without the start and the
\* return; the source returns at most maxItems chats or entries per fetch
InvocationStep(i, maxItems) ==
  \/ GetUserConfig(i)
  \/ MarkEnsure(i)
  \/ MarkUpdate(i)
  \/ DocLastSync(i)
  \/ DocFetch(i) /\ Len(proc'[i].items) <= maxItems
  \/ DocSelect(i)
  \/ DocInsert(i)
  \/ DocUpdate(i)
  \/ RefreshDelete(i)
  \/ RefreshInsert(i)
  \/ LifeLastSync(i)
  \/ LifeFetch(i) /\ Len(proc'[i].items) <= maxItems
  \/ LifeSelect(i)
  \/ LifeCreate(i)
  \/ LifeUpdate(i)

\* One scheduled pass over two users with credentials, with failing calls.
InitSched == InitFor(Users, 1, MaxFailures, {})

NextSched ==
  \/ Tick(1)
  \/ GetUsersWithCredentials(1)
  \/ SchedUsersFailure(1)
  \/ SchedCall(1)
  \/ SchedReturn(1)
  \/ InvocationStep(1, MaxChats)
  \/ FailureStep(1)

SpecSched == InitSched /\ [][NextSched]_vars

\* The timer ticks while a pass runs: passes in both slots over one user with a
\* credential, no failing calls.
InitCron == InitFor({1}, MaxRuns, 0, {})

NextCron ==
  \E i \in Procs :
    \/ Tick(i)
    \/ GetUsersWithCredentials(i)
    \/ SchedCall(i)
    \/ SchedReturn(i)
    \/ InvocationStep(i, MaxPassItems)

SpecCron == InitCron /\ [][NextCron]_vars

\* Syncs of both kinds for two users in different time zones, one at a time,
\* forced and not, with the daysBack of the call: what each fetch asks for.
InitWindow == InitFor(Users, MaxRuns, 0, {})

NextWindow ==
  \/ \E u \in Users, force \in BOOLEAN : StartDocSync(1, u, force)
  \/ \E u \in Users, force \in BOOLEAN, daysBack \in 1..MaxDaysBack :
        StartLifeSyncDays(1, u, force, daysBack)
  \/ InvocationStep(1, MaxPassItems)
  \/ Finish(1)
  \/ AdvanceClock

SpecWindow == InitWindow /\ [][NextWindow]_vars

\* The extraction engine applied to each document of the bounded set.
InitEngine == InitFor({}, 0, 0, {})

NextEngine == \E content \in Documents : Extract(content)

SpecEngine == InitEngine /\ [][NextEngine]_vars

\* The extraction engine applied to each document about follow-ups.
InitFollowUps == InitFor({}, 0, 0, {})

NextFollowUps == \E content \in FollowUpDocs : Extract(content)

SpecFollowUps == InitFollowUps /\ [][NextFollowUps]_vars

\* The extraction engine applied to each document about order and repetition.
InitSequences == InitFor({}, 0, 0, {})

NextSequences == \E content \in SequenceDocs : Extract(content)

SpecSequences == InitSequences /\ [][NextSequences]_vars

\* One stored document and the entry points that store or refresh it.
InitStore == InitFor({}, 0, 0, {})

NextStore ==
  \/ \E content \in StoreDocuments, date \in StoreDays : SyncInsert(content, date)
  \/ \E content \in StoreDocuments : SyncUpdate(content)
  \/ \E content \in StoreDocuments, date \in StoreDays : createInsight(content, date)
  \/ \E content \in StoreDocuments : updateInsight(content)
  \/ reprocessAllInsights
  \/ \E date \in StoreDays : reprocessInsightByDate(date)
  \/ \E startDate \in StoreDays, endDate \in StoreDays :
        reprocessInsightsByDateRange(startDate, endDate)
  \/ RefreshExtract
  \/ RefreshInsightWrite
  \/ \E check \in BOOLEAN, found \in SUBSET SectionTypes : RefreshStructuredWrite(check, found)
  \/ \E t \in SectionTypes : approveDiscovery(t) \/ dismissDiscovery(t)

SpecStore == InitStore /\ [][NextStore]_vars

(* ------------------------------ properties ----------------------------- *)
\* C1: under any interleaving of document syncs, the store never holds two
\* documents for the same (user, date); the insert that loses the race is
\* rejected instead of creating a second row.
C1_OneDocumentPerUserDate ==
  \A r1 \in insightsTbl, r2 \in insightsTbl :
    (r1.userId = r2.userId /\ r1.date = r2.date) => r1 = r2

\* Two invocations passed the existence check for the same date; one inserted
\* the row, the insert of the other was rejected.
C1_LosingInsertRejected ==
  \E p \in Procs :
    /\ proc[p].kind = "doc"
    /\ proc[p].inCatch
    /\ proc[p].err = "UNIQUE constraint failed"
    /\ Cardinality({r \in insightsTbl :
                      r.userId = proc[p].user
                      /\ r.date = ContentDate(proc[p].items[proc[p].idx])}) = 1

\* C2: a document sync that runs again while the remote documents are
\* unchanged (same fetch as the last undisturbed successful pass, nothing
\* written to the user's rows in between) inserts nothing, updates nothing,
\* re-extracts nothing, and reports added = 0 and updated = 0.
C2_DocSyncIdempotent ==
  \A p \in Procs :
    LET l == proc[p] IN
    (/\ l.pc = "done" /\ l.kind = "doc" /\ l.outcome = "success"
     /\ ~l.disturbed /\ l.baseline.ok /\ l.baseline.items = l.items)
      => (l.added = 0 /\ l.updated = 0 /\ l.wrote = {})

\* C3: once no sync is running, every action item the user marked completed
\* is still stored as completed, and every document the user edited still
\* carries the edited text.
C3_LocalChangesPreserved ==
  (\A p \in Procs : ~Running(proc[p])) =>
    /\ \A c \in userCompleted :
         \E i \in 1..Len(actionItemsTbl) :
           /\ actionItemsTbl[i].insightId = c.insightId
           /\ actionItemsTbl[i].content = c.content
           /\ actionItemsTbl[i].completed
    /\ \A id \in userEdited :
         \E r \in insightsTbl : r.id = id /\ r.content = EditedContent

\* the stored rows of user u for the remote identifier
LifeLogRows(u, limitlessId) ==
  {r \in lifelogsTbl : r.userId = u /\ r.limitlessId = limitlessId}

\* C4: when a non-forced life-log sync fetches the same unchanged entries as
\* the pass before it, every fetched identifier has exactly one stored row and
\* the pass reports updated = 0 (every entry is counted as skipped).
C4_LifeLogUpsertIdempotent ==
  \A p \in Procs :
    LET l == proc[p] IN
    (/\ l.pc = "done" /\ l.kind = "life" /\ ~l.force /\ l.outcome = "success"
     /\ ~l.disturbed /\ l.baseline.ok /\ l.baseline.items = l.items)
      => /\ l.updated = 0
         /\ l.wrote = {}
         /\ \A k \in 1..Len(l.items) :
              l.items[k].id # "" =>
                Cardinality(LifeLogRows(l.user, l.items[k].id)) = 1

\* every remote entry occurs once in the fetch
DistinctIds(items) ==
  \A i \in 1..Len(items), j \in 1..Len(items) :
    i # j => items[i].id # items[j].id

\* entry k of the fetch differs from the pass before in its markdown only,
\* and every other entry is unchanged
OnlyMarkdownChanged(old, new, k) ==
  /\ Len(old) = Len(new)
  /\ k \in 1..Len(new)
  /\ new[k].id # ""
  /\ new[k].id = old[k].id
  /\ new[k].startTime = old[k].startTime
  /\ new[k].markdown # old[k].markdown
  /\ \A j \in 1..Len(new) : j # k => new[j] = old[j]

\* C5: when only the markdown of one previously synced entry changed and a
\* non-forced life-log sync runs again, the pass counts one update, writes the
\* row of that entry, and leaves every other stored life log untouched.
C5_LifeLogChangeDetection ==
  \A p \in Procs :
    LET l == proc[p] IN
    \A k \in 1..Len(l.items) :
      (/\ l.pc = "done" /\ l.kind = "life" /\ ~l.force /\ l.outcome = "success"
       /\ ~l.disturbed /\ l.baseline.ok /\ DistinctIds(l.items)
       /\ OnlyMarkdownChanged(l.baseline.items, l.items, k))
        => /\ l.updated = 1
           /\ l.wrote = {r.id : r \in LifeLogRows(l.user, l.items[k].id)}

\* pcs at which an invocation is fetching from the source or upserting
WorkingPcs == {"d_fetch", "d_select", "d_insert", "d_update", "r_delete", "r_insert",
               "l_fetch", "l_select", "l_create", "l_update"}

\* C6: when a fetch or an upsert failed inside a document sync or a life-log
\* sync, the invocation has recorded status error with the failure's message,
\* returns a failure result carrying that message, and every row it wrote
\* before the failure is still stored.
C6_FailureRecordedAndReturned ==
  \A p \in Procs :
    LET l == proc[p] IN
    (l.pc = "done" /\ l.failedAt \in WorkingPcs) =>
      /\ l.outcome = "failure"
      /\ \E i \in 1..Len(l.message) : l.message[i] = l.err
      /\ \A i \in UserRows(l.user) :
           /\ syncMetadata[i].lastSyncStatus = "error"
           /\ syncMetadata[i].errorMessage = l.err
      /\ l.kind = "doc" => l.wrote \subseteq {r.id : r \in insightsTbl}
      /\ l.kind = "life" => l.wrote \subseteq {r.id : r \in lifelogsTbl}

\* the invocation read the user's configuration and found the credential
FoundCredential(l) ==
  /\ l.outcome # "skipped"
  /\ ~(l.outcome = "threw" /\ ~l.inCatch)

\* C7: an invocation for a user with a credential that has ended has returned
\* a result, and the last bookkeeping status it wrote is success or error.
C7_EndsWithSuccessOrError ==
  \A p \in Procs :
    LET l == proc[p] IN
    (l.pc = "done" /\ FoundCredential(l)) =>
      /\ l.outcome \in {"success", "failure"}
      /\ l.lastWritten \in {"success", "error"}

\* C8: while a document sync or a life-log sync is fetching or upserting, the
\* status query of its user reports in_progress = true.
C8_InProgressWhileWorking ==
  \A p \in Procs :
    proc[p].pc \in WorkingPcs =>
      \A a \in SyncStatusAnswers(proc[p].user) : a.in_progress

\* should_sync as the rule states it, on the bookkeeping row `r`, whose
\* last_sync_at holds the hour at which the last sync was recorded
ShouldSyncRule(r) ==
  /\ r.lastSyncStatus # "in_progress"
  /\ NowMs >= SyncWindowStart
  /\ \/ r.lastSyncAt.v * MsPerHour < SyncWindowStart
     \/ r.lastSyncStatus # "success"

\* C9: the status query returns should_sync = true exactly when no sync is
\* marked in progress, the time is at or after today's 07:00, and there is no
\* prior sync, or the last sync happened before today's 07:00, or it did not
\* end in success; before 07:00 with no prior sync the reason names 07:00.
C9_ShouldSyncRule ==
  \A u \in Users :
    IF UserRows(u) = {}
    THEN LET a == SyncStatusFrom(NoLastSync)
         IN /\ a.should_sync = (NowMs >= SyncWindowStart)
            /\ NowMs < SyncWindowStart => a.reason = "Waiting until 7:00 AM"
    ELSE \A i \in LatestRows(u) :
           SyncStatusFrom(syncMetadata[i]).should_sync = ShouldSyncRule(syncMetadata[i])

\* C10: from the end of a failed document sync of a user until the user's next
\* document sync starts, the status query reports status error with the
\* failure message. (A query that falls between the two statements of
\* markSyncStatus is left out.)
C10_DocFailureStaysVisible ==
  \A u \in Users :
    (hist[u].docFailure # "" /\ \A p \in Procs : proc[p].pc # "mark_update") =>
      \A a \in SyncStatusAnswers(u) :
        a.status = "error" /\ a.error_message = hist[u].docFailure


\* C11: when a scheduled pass has ended, every user it listed, other than the
\* user whose sync failed, has had both the document sync and the life-log
\* sync called in that pass: a failure for one user (returned as a result or
\* raised as an exception) does not keep the remaining users from being synced.
C11_FailureDoesNotStopPass ==
  \A i \in Procs :
    LET s == sched[i] IN
    s.pc = "ended" =>
      \A u \in s.listed :
        (s.caught /\ u = s.user) \/ {<<u, "doc">>, <<u, "life">>} \subseteq s.started

\* C12: the scheduler never has two sync invocations for the same user in
\* flight at the same time, because a tick starts no pass while the previous
\* pass is still running.
C12_PassesNeverOverlap ==
  \A i \in Procs, j \in Procs :
    (/\ i # j
     /\ PassRunning(sched[i]) /\ PassRunning(sched[j])
     /\ Running(proc[i]) /\ Running(proc[j]))
      => proc[i].user # proc[j].user


\* C15: a document sync or life-log sync called for a user without stored
\* credential goes from the read of the configuration straight to its end:
\* it never reaches a fetch or a bookkeeping write, every stored table is left
\* as it was, and the result it returns is the skipped result (the only other
\* way out is the rejected read of the configuration itself, which writes
\* nothing either).
C15_NoCredentialSkips ==
  [][\A p \in Procs :
       (proc[p].pc = "config" /\ ~apiKey[proc[p].user]) =>
         /\ UNCHANGED <<insightsTbl, actionItemsTbl, lifelogsTbl, syncMetadata>>
         /\ proc'[p].pc \in {"config", "done"}
         /\ proc'[p].pc = "done" =>
              \/ proc'[p].outcome = "threw"
              \/ /\ proc'[p].outcome = "skipped"
                 /\ proc'[p].message = <<"Missing API key">>
                 /\ proc'[p].fetched = 0 /\ proc'[p].wrote = {}]_vars

\* A sync for the user without credential returned the skipped result, in a
\* store that holds rows of an earlier sync of the other user.
C15_SkippedReturned ==
  \E p \in Procs :
    /\ proc[p].pc = "done"
    /\ ~apiKey[proc[p].user]
    /\ proc[p].outcome = "skipped"
    /\ syncMetadata # <<>>
    /\ insightsTbl # {}

\* C16: for a document with a blockquote line `> "hello"` followed later by
\* the attribution line `> _(em dash) Alice_`, the extraction produces a quote
\* whose text is "hello" and whose speaker is "Alice".
C16_QuoteAttributionPairing ==
  LET c == eng.content
      quotes == eng.structured.quotes
      followed == \E i \in 1..Len(c), j \in 1..Len(c) :
                    /\ i < j
                    /\ LineStart(c, i) /\ At(c, i, QuoteLine \o "\n")
                    /\ LineStart(c, j) /\ At(c, j, AliceLine \o "\n")
  IN (eng.pc = "extracted" /\ followed) =>
       \E k \in 1..Len(quotes) : quotes[k] = [text |-> "hello", speaker |-> "Alice"]

\* C17: in a document with two `##` sections of different names, every item
\* extracted for the first header is text that stands before the start of the
\* second header, in the header-then-subsection mode ("Decision Log" with
\* "Decisions Made") and in the header-only mode ("Strategic Decisions Made").
C17_HeaderMatchScope ==
  LET c == eng.content
      first == IF At(c, 1, "## Decision Log\n") THEN "Decision Log"
               ELSE IF At(c, 1, "## Strategic Decisions Made\n") THEN "Strategic Decisions Made"
               ELSE ""
      seconds == {j \in 2..Len(c) :
                    /\ LineStart(c, j) /\ At(c, j, "## ")
                    /\ ~At(c, j, "## " \o first \o "\n")}
      before == SubSeq(c, 1, Least(seconds) - 1)
      items == IF first = "Decision Log"
               THEN extractSectionItems(c, "Decision Log", "Decisions Made")
               ELSE extractSectionItems(c, "Strategic Decisions Made", "")
  IN (eng.pc = "extracted" /\ first # "" /\ seconds # {}) =>
       \A k \in 1..Len(items) : Includes(before, items[k])

\* C18: no sequence field of the structured record holds an item that came
\* from a bullet or a doubled-header subsection and whose cleaned text is 10
\* characters or fewer: the items of actionItems, decisions, ideas, questions
\* and highlights, the bullets `Title: description` of themes and the bullets
\* `category: fact` (with their source) of knowledgeNuggets are all longer.
C18_NoiseFilter ==
  LET d == eng.structured
      long(items) == \A k \in 1..Len(items) : Len(items[k]) > 10
      theme(t) == Len(t.title) + Len(": ") + Len(t.description)
      nugget(n) == Len(n.category) + Len(": ") + Len(n.fact)
                     + (IF n.source = "" THEN 0 ELSE Len(" _Source: _") + Len(n.source))
  IN eng.pc = "extracted" =>
       /\ long(d.actionItems) /\ long(d.decisions) /\ long(d.ideas)
       /\ long(d.questions) /\ long(d.highlights)
       /\ \A k \in 1..Len(d.themes) : theme(d.themes[k]) > 10
       /\ \A k \in 1..Len(d.knowledgeNuggets) : nugget(d.knowledgeNuggets[k]) > 10

\* C19: when the document has no "Decision Log" header with a "Decisions
\* Made" subsection and the first line of its (first) "Strategic Decisions
\* Made" section is a valid bullet (more than 10 characters of text),
\* decisions is non-empty and every item of it is text of that section.
C19_DecisionsFallback ==
  LET c == eng.content
      decisions == eng.structured.decisions
      primary == /\ \E i \in 1..Len(c) : LineStart(c, i) /\ At(c, i, "## Decision Log\n")
                 /\ \E i \in 1..Len(c) : LineStart(c, i) /\ At(c, i, "### Decisions Made\n")
      headers == {i \in 1..Len(c) :
                    LineStart(c, i) /\ At(c, i, "## Strategic Decisions Made\n")}
      s == Least(headers)
      bullet == \E b \in {LongBullet, HashBullet} :
                  At(c, s, "## Strategic Decisions Made\n" \o b \o "\n")
      ends == {j \in (s + 1)..(Len(c) + 1) :
                 j = Len(c) + 1 \/ (LineStart(c, j) /\ At(c, j, "## "))}
      section == SubSeq(c, s, Least(ends) - 1)
  IN (eng.pc = "extracted" /\ ~primary /\ headers # {} /\ bullet) =>
       /\ decisions # <<>>
       /\ \A k \in 1..Len(decisions) : Includes(section, decisions[k])

\* C20: in the Memorable Exchanges section, a line that starts with `> _` and
\* holds an em dash, an en dash or a hyphen, reached right after a dialogue
\* line, closes the exchange: an exchange with that line as context is
\* recorded; and every recorded exchange has at least one dialogue line.
C20_ExchangeStateMachine ==
  LET c == eng.content
      exchanges == eng.structured.memorableExchanges
      attribution(line) ==
        /\ At(line, 1, "> _")
        /\ Includes(line, EmDash) \/ Includes(line, EnDash) \/ Includes(line, "-")
      closes(line) ==
        \E i \in 1..Len(c) :
          /\ LineStart(c, i)
          /\ At(c, i, QuoteLine \o "\n" \o line \o "\n")
          /\ \E j \in (i + 1)..Len(c) : j > i + Len(QuoteLine) + Len(line) /\ At(c, j, "\n## ")
  IN (eng.pc = "extracted" /\ At(c, 1, "## Memorable Exchanges\n")) =>
       /\ \A line \in {AliceLine, HyphenLine} :
            (attribution(line) /\ closes(line)) =>
              \E k \in 1..Len(exchanges) : exchanges[k].context = SubSeq(line, 3, Len(line))
       /\ \A k \in 1..Len(exchanges) : Len(exchanges[k].dialogue) >= 1

\* C13: reprocessing a stored document (reprocess-all, by date or by date
\* range) leaves exactly the rows of one extraction of its content, without
\* duplicate and without row of an earlier content; reprocessing it again
\* right after a reprocessing leaves every derived row as it was.
C13_ReprocessIdempotent ==
  [][(eng.pc = "write" /\ eng'.pc = "idle" /\ eng.op \in ReprocessOps) =>
       /\ eng'.derived = refreshInsightStructure(NoData, StructuredOf[eng.content])
       /\ eng.prev \in ReprocessOps => eng'.derived = eng.derived]_vars

\* The document, stored by a sync with another content and then edited, was
\* reprocessed twice in a row through two different entry points and has
\* derived rows in several tables.
C13_ReprocessedTwice ==
  /\ eng.pc = "idle"
  /\ eng.op \in ReprocessOps /\ eng.prev \in ReprocessOps /\ eng.op # eng.prev
  /\ eng.content = NuggetsDoc
  /\ eng.derived.knowledgeNuggets # <<>>
  /\ eng.derived.memorableExchanges # <<>>
  /\ eng.derived.decisions # <<>>
  /\ eng.derived.actionItems = <<>>

\* C14: the rows a document sync wrote for a document (on insert or on
\* update) are the rows that reprocessing the document, or saving it again
\* with the same content, writes: such a refresh right after the sync leaves
\* all nine derived tables as they were.
C14_EntryPointsAgree ==
  [][(/\ eng.pc = "write" /\ eng'.pc = "idle"
      /\ eng.prev \in {"syncInsert", "syncUpdate"}
      /\ eng.op \in ReprocessOps \cup {"updateInsight"}
      /\ eng.kept) => eng'.derived = eng.derived]_vars

\* the step is the status write with which a sync of `kind` for user u
\* completes successfully
SuccessStep(u, kind) ==
  \E p \in Procs :
    /\ proc[p].pc = "mark_update" /\ proc[p].kind = kind /\ proc[p].user = u
    /\ proc[p].markStatus = "success"
    /\ proc'[p].pc = "done" /\ proc'[p].outcome = "success"

\* the step is a step of a sync of `kind`
StepOf(kind) == \E p \in Procs : proc'[p] # proc[p] /\ proc[p].kind = kind

Stamped(u, column) == {i \in UserRows(u) : syncMetadata[i][column] # Null}

\* C22: a non-forced sync that runs after a successful sync of the same kind
\* for the user fetches from that sync's completion time minus the buffer:
\* one hour before it for documents, two hours before it for life logs.
C22_WindowFollowsLastSuccess ==
  \A p \in Procs :
    LET l == proc[p] IN
    /\ (l.pc = "d_fetch" /\ ~l.force) =>
         \A i \in Stamped(l.user, "lastInsightsSyncAt") :
           l.start = syncMetadata[i].lastInsightsSyncAt.v * MsPerHour - MsPerHour
    /\ (l.pc = "l_fetch" /\ ~l.force) =>
         \A i \in Stamped(l.user, "lastLifelogsSyncAt") :
           l.start = syncMetadata[i].lastLifelogsSyncAt.v * MsPerHour - 2 * MsPerHour

\* the dates a request names, as a set
RequestedDates(r) == {r.dates[i] : i \in 1..Len(r.dates)}

\* C23: a non-forced sync that finds no timestamp of an earlier successful
\* sync of its kind fetches a recent lookback of at most three days: a
\* life-log sync asks for dates among today and the two days before it, a
\* document sync asks for the chats from a start time between three days and
\* one day ago; neither fetches without a bound.
C23_FirstSyncShortLookback ==
  \A p \in Procs :
    LET l == proc[p]
        r == l.request
    IN (Running(l) /\ r # NoRequest /\ ~l.force /\ ~l.found) =>
         IF l.kind = "life"
         THEN /\ r.dates # <<>>
              /\ RequestedDates(r) \subseteq (Today(l.user) - 2)..Today(l.user)
         ELSE /\ r.start # NaN
              /\ r.start >= NowMs - 3 * MsPerDay
              /\ r.start <= NowMs - MsPerDay

\* C24: a forced life-log sync called with daysBack = N asks for N + 1 dates:
\* tomorrow and the N days from today back to today - (N - 1), in the user's
\* time zone; a forced document sync asks for the chats from 30 days ago on.
C24_ForcedWindow ==
  \A p \in Procs :
    LET l == proc[p]
        r == l.request
    IN (Running(l) /\ r # NoRequest /\ l.force) =>
         IF l.kind = "life"
         THEN /\ Len(r.dates) = l.daysBack + 1
              /\ RequestedDates(r) = (Today(l.user) - (l.daysBack - 1))..(Today(l.user) + 1)
         ELSE /\ r.start # NaN
              /\ r.start \div MsPerHour = now - DefaultDaysBack * HoursPerDay

\* C25: a user has no bookkeeping row before the first sync attempt that
\* reaches a status write and exactly one row ever after: no status write adds
\* a second row for the user.
C25_OneBookkeepingRow ==
  \A u \in Users : Cardinality(UserRows(u)) <= 1

\* the contents of the stored action items of a document, in rowid order
DerivedContents(insightId) ==
  LET rows == SelectSeq(actionItemsTbl, LAMBDA r : r.insightId = insightId)
  IN [k \in 1..Len(rows) |-> rows[k].content]

\* C26: once every operation that refreshes derived rows has finished,
\* however their storage calls interleaved, the derived rows of each stored
\* document are exactly one copy of the extraction of its stored content.
C26_RefreshesConverge ==
  (\A p \in Procs : ~Running(proc[p])) =>
    \A r \in insightsTbl : DerivedContents(r.id) = ExtractActionItems(r.content)

\* the chats among the first n of `items` that pass the filters of the loop
ValidChats(items, n) == Cardinality({k \in 1..n : k <= Len(items) /\ ValidChat(items[k])})

\* the entries of `items` dropped for having no identifier
DroppedEntries(items) == Cardinality({k \in 1..Len(items) : items[k].id = ""})

\* C27: every processed item is counted exactly once. In a document sync,
\* fetched counts the valid chats reached so far and the chat at hand is not
\* yet in added or updated; when the sync has succeeded, fetched is the number
\* of valid chats and added + updated <= fetched (the rest is unchanged). When
\* a life-log sync has succeeded, synced + updated + skipped is the number of
\* fetched entries minus those dropped for having no identifier. In both cases
\* the counters in the user's bookkeeping equal the returned ones.
C27_CountersAccount ==
  \A p \in Procs :
    LET l == proc[p] IN
    /\ (l.kind = "doc" /\ l.pc \in {"d_select", "d_insert", "d_update", "r_delete", "r_insert"}) =>
         /\ l.fetched = ValidChats(l.items, l.idx)
         /\ l.added + l.updated < l.fetched
    /\ (l.kind = "doc" /\ l.pc = "done" /\ l.outcome = "success") =>
         /\ l.fetched = ValidChats(l.items, Len(l.items))
         /\ l.added + l.updated <= l.fetched
         /\ \A i \in UserRows(l.user) :
              /\ syncMetadata[i].insightsFetched = l.fetched
              /\ syncMetadata[i].insightsAdded = l.added
              /\ syncMetadata[i].insightsUpdated = l.updated
    /\ (l.kind = "life" /\ l.pc = "done" /\ l.outcome = "success") =>
         /\ l.added + l.updated + l.skipped = Len(l.items) - DroppedEntries(l.items)
         /\ \A i \in UserRows(l.user) :
              /\ syncMetadata[i].lifelogsFetched = Len(l.items)
              /\ syncMetadata[i].lifelogsAdded = l.added
              /\ syncMetadata[i].lifelogsUpdated = l.updated

\* A life-log sync returned success for a fetch of two entries, one of them
\* without identifier and the other one unchanged since the sync before:
\* skipped = 1 and nothing added or updated.
C27_SkippedAndDropped ==
  \E p \in Procs :
    /\ proc[p].kind = "life" /\ proc[p].pc = "done" /\ proc[p].outcome = "success"
    /\ Len(proc[p].items) = 2
    /\ DroppedEntries(proc[p].items) = 1
    /\ proc[p].skipped = 1 /\ proc[p].added = 0 /\ proc[p].updated = 0
    /\ UserRows(proc[p].user) # {}

\* C28: in the actionItems of every extracted document the items of the
\* `### ### Title` pre-pass come first, each of them occurs exactly as often as the pre-pass
\* found it (once for an item found once), and
\* what follows them is the normal resolution: the items of the two Key
\* Follow-Ups subsections, or, exactly when those two yield nothing, the items
\* of Commitment Tracker / Promises from You, whatever the pre-pass found.
C28_PrePassIndependent ==
  eng.pc = "extracted" =>
    LET items == eng.structured.actionItems
        pre == KeyFollowUps(eng.content)
        subsections ==
          extractSectionItems(eng.content, "Key Follow-Ups", "For You to Action")
            \o extractSectionItems(eng.content, "Key Follow-Ups", "Household To-Dos")
        promises == extractSectionItems(eng.content, "Commitment Tracker", "Promises from You")
    IN /\ Len(items) >= Len(pre)
       /\ SubSeq(items, 1, Len(pre)) = pre
       /\ \A k \in 1..Len(pre) :
            Cardinality({j \in 1..Len(items) : items[j] = pre[k]})
              = Cardinality({j \in 1..Len(pre) : pre[j] = pre[k]})
       /\ items = pre \o (IF subsections = <<>> THEN promises ELSE subsections)

\* C29: the quotes of an extracted document never hold two entries with the
\* same text, whichever patterns matched them.
C29_QuotesDeduplicated ==
  eng.pc = "extracted" =>
    LET quotes == eng.structured.quotes
    IN \A i, j \in 1..Len(quotes) : i < j => quotes[i].text # quotes[j].text

\* the first position of `text` in content, 0 when it does not occur
FirstIndex(content, text) ==
  LET ps == {p \in 1..Len(content) : At(content, p, text)}
  IN IF ps = {} THEN 0 ELSE Least(ps)

\* the items stand in the order of their first occurrence in content (items
\* whose text is not literally in content are left out)
InDocumentOrder(content, texts) ==
  \A i, j \in 1..Len(texts) :
    (i < j /\ FirstIndex(content, texts[i]) # 0 /\ FirstIndex(content, texts[j]) # 0)
      => FirstIndex(content, texts[i]) <= FirstIndex(content, texts[j])

\* C30: in every sequence field of the structured record of an extracted
\* document the items stand in the order in which their source text stands
\* in the document: a to-do read under Household To-Dos that precedes one under
\* For You to Action in the document precedes it in actionItems, and quotes
\* are ordered by position, not by the pattern that matched them.
C30_DocumentOrder ==
  eng.pc = "extracted" =>
    /\ InDocumentOrder(eng.content, eng.structured.actionItems)
    /\ InDocumentOrder(eng.content, eng.structured.decisions)
    /\ InDocumentOrder(eng.content, eng.structured.ideas)
    /\ InDocumentOrder(eng.content, eng.structured.questions)
    /\ InDocumentOrder(eng.content,
                       [k \in 1..Len(eng.structured.quotes) |-> eng.structured.quotes[k].text])

====
